---- MODULE Spec2Model ----
(***************************************************************************)
(* Model of tinyland-analytics-data: the AnalyticsDataService of           *)
(* src/src/service.ts together with parseTimeRange (src/unnamed/part_000). *)
(*                                                                         *)
(* One top-level invocation of an entry point is modelled at a time.  An   *)
(* invocation owns one getPageViews activation (five for the rollup); an   *)
(* activation is suspended at `await this.fetchLoki(path)` and at          *)
(* `await response.json()`, and the backend settles those in any order.    *)
(***************************************************************************)
EXTENDS Integers, Sequences, FiniteSets, TLC

\* where an invocation or an activation stands.  Every step of the model is
\* decided on this field before any payload of the record is looked at
Position(r) == r.pc

(***************************************************************************)
(* JavaScript numbers.  Every JS number is an IEEE-754 binary64; the       *)
(* divisions and the multiplication in service.ts lines 66, 205 and 237    *)
(* round to 53 significant bits.  A double is represented exactly as       *)
(* [m, e] standing for m * 2^e, with m a natural number below 2^53 + 1     *)
(* held as a little-endian sequence of base-1024 limbs (no leading zero    *)
(* limb; <<>> is zero).  Only non-negative finite values occur.            *)
(***************************************************************************)
LimbBits == 10

Pow2(n) == 2 ^ n

LimbBase == Pow2(LimbBits)

MantissaBits == 53

\* number of bits a dividend is widened to before an integer division, so
\* that the quotient by any divisor below 2^20 keeps more than 53 bits
DividendBits == 75

RECURSIVE BigFromInt(_)
BigFromInt(n) ==
    IF n = 0 THEN <<>> ELSE <<n % LimbBase>> \o BigFromInt(n \div LimbBase)

RECURSIVE BigToInt(_)
BigToInt(a) ==
    IF a = <<>> THEN 0 ELSE Head(a) + LimbBase * BigToInt(Tail(a))

RECURSIVE BigNorm(_)
BigNorm(a) ==
    IF a = <<>> THEN <<>>
    ELSE IF a[Len(a)] = 0 THEN BigNorm(SubSeq(a, 1, Len(a) - 1))
    ELSE a

RECURSIVE BigMulCarry(_, _, _)
BigMulCarry(a, c, carry) ==
    IF a = <<>>
    THEN BigFromInt(carry)
    ELSE LET v == Head(a) * c + carry
         IN  <<v % LimbBase>> \o BigMulCarry(Tail(a), c, v \div LimbBase)

BigMulSmall(a, c) == BigNorm(BigMulCarry(a, c, 0))

BigAddSmall(a, c) == BigNorm(BigMulCarry(a, 1, c))

\* schoolbook short division, most significant limb first
RECURSIVE BigDivRem(_, _)
BigDivRem(a, d) ==
    IF a = <<>> THEN [q |-> <<>>, r |-> 0]
    ELSE LET hi  == BigDivRem(Tail(a), d)
             cur == hi.r * LimbBase + Head(a)
         IN  [q |-> <<cur \div d>> \o hi.q, r |-> cur % d]

BigDivSmall(a, d) ==
    LET dr == BigDivRem(a, d) IN [q |-> BigNorm(dr.q), r |-> dr.r]

RECURSIVE BitLenInt(_)
BitLenInt(n) == IF n = 0 THEN 0 ELSE 1 + BitLenInt(n \div 2)

BigBitLen(a) ==
    IF a = <<>> THEN 0 ELSE LimbBits * (Len(a) - 1) + BitLenInt(a[Len(a)])

BigShl(a, s) ==
    IF a = <<>> THEN <<>>
    ELSE BigMulSmall([i \in 1..(s \div LimbBits) |-> 0] \o a, Pow2(s % LimbBits))

BigShrFloor(a, s) ==
    IF s \div LimbBits >= Len(a) THEN <<>>
    ELSE BigDivSmall(SubSeq(a, (s \div LimbBits) + 1, Len(a)), Pow2(s % LimbBits)).q

\* bit i (0 = least significant) of a
BigBit(a, i) ==
    IF i \div LimbBits >= Len(a) THEN 0
    ELSE (a[(i \div LimbBits) + 1] \div Pow2(i % LimbBits)) % 2

\* some bit of a below position i is set
BigLowNonZero(a, i) ==
    \/ \E j \in 1..Len(a) : j <= i \div LimbBits /\ a[j] # 0
    \/ /\ i \div LimbBits < Len(a)
       /\ a[(i \div LimbBits) + 1] % Pow2(i % LimbBits) # 0

BigOdd(a) == a # <<>> /\ a[1] % 2 = 1

RECURSIVE BigAddCarry(_, _, _)
BigAddCarry(a, b, carry) ==
    IF a = <<>> /\ b = <<>>
    THEN BigFromInt(carry)
    ELSE LET v == (IF a = <<>> THEN 0 ELSE Head(a)) + (IF b = <<>> THEN 0 ELSE Head(b)) + carry
         IN  <<v % LimbBase>>
                 \o BigAddCarry(IF a = <<>> THEN a ELSE Tail(a),
                                IF b = <<>> THEN b ELSE Tail(b), v \div LimbBase)

BigAdd(a, b) == BigNorm(BigAddCarry(a, b, 0))

\* a < b, for normalised a and b
RECURSIVE BigLess(_, _)
BigLess(a, b) ==
    IF Len(a) # Len(b) THEN Len(a) < Len(b)
    ELSE IF a = <<>> THEN FALSE
    ELSE IF a[Len(a)] # b[Len(b)] THEN a[Len(a)] < b[Len(b)]
    ELSE BigLess(SubSeq(a, 1, Len(a) - 1), SubSeq(b, 1, Len(b) - 1))

\* a - b for a >= b
RECURSIVE BigSubBorrow(_, _, _)
BigSubBorrow(a, b, borrow) ==
    IF a = <<>> THEN <<>>
    ELSE LET v == Head(a) - (IF b = <<>> THEN 0 ELSE Head(b)) - borrow
         IN  <<IF v < 0 THEN v + LimbBase ELSE v>>
                 \o BigSubBorrow(Tail(a), IF b = <<>> THEN b ELSE Tail(b),
                                 IF v < 0 THEN 1 ELSE 0)

BigSub(a, b) == BigNorm(BigSubBorrow(a, b, 0))

\* round the exact value (q + sticky fraction) * 2^e to 53 bits,
\* ties to even (the IEEE default rounding used by JS arithmetic)
F64RoundNearestEven(q, sticky, e) ==
    LET len == BigBitLen(q) IN
    IF len <= MantissaBits THEN [m |-> q, e |-> e]
    ELSE LET r    == len - MantissaBits
             q0   == BigShrFloor(q, r)
             half == BigBit(q, r - 1) = 1
             rest == sticky \/ BigLowNonZero(q, r - 1)
             up   == half /\ (rest \/ BigOdd(q0))
         IN  [m |-> IF up THEN BigAddSmall(q0, 1) ELSE q0, e |-> e + r]

F64FromInt(n) == [m |-> BigFromInt(n), e |-> 0]

\* x / d for a double x >= 0 and an integer 0 < d < 2^20
F64Div(x, d) ==
    IF x.m = <<>> THEN x
    ELSE LET k  == DividendBits - BigBitLen(x.m)
             dv == BigDivSmall(BigShl(x.m, k), d)
         IN  F64RoundNearestEven(dv.q, dv.r # 0, x.e - k)

\* x * c for a double x >= 0 and an integer 0 <= c < 2^20
F64Mul(x, c) == F64RoundNearestEven(BigMulSmall(x.m, c), FALSE, x.e)

\* x - y for integer-valued doubles x, y >= 0: the exact difference rounded,
\* with its sign
F64Sub(x, y) ==
    LET a == BigShl(x.m, x.e)
        b == BigShl(y.m, y.e)
    IN  IF BigLess(a, b)
        THEN [neg |-> TRUE, abs |-> F64RoundNearestEven(BigSub(b, a), FALSE, 0)]
        ELSE [neg |-> FALSE, abs |-> F64RoundNearestEven(BigSub(a, b), FALSE, 0)]

\* floor(x) for a double x >= 0 (Date's TimeClip truncation)
F64Trunc(x) ==
    IF x.e >= 0 THEN BigToInt(BigShl(x.m, x.e))
    ELSE BigToInt(BigShrFloor(x.m, 0 - x.e))

\* Math.round: floor(x + 1/2) computed exactly, x >= 0
MathRound(x) ==
    IF x.e >= 0 THEN BigToInt(BigShl(x.m, x.e))
    ELSE (BigToInt(BigShrFloor(x.m, (0 - x.e) - 1)) + 1) \div 2

(***************************************************************************)
(* JavaScript values.  A string is a TLA+ string; a property that is       *)
(* absent reads as Undefined.                                              *)
(***************************************************************************)
Undefined == "<undefined>"

\* ToBoolean on an optional string: undefined and "" are falsy
Truthy(v) == v # Undefined /\ v # ""

\* a || b
OrElse(a, b) == IF Truthy(a) THEN a ELSE b

Digits == "0123456789"

CharAt(s, i) == SubSeq(s, i, i)

DigitValues == [c \in {CharAt(Digits, i) : i \in 1..10} |->
                    (CHOOSE i \in 1..10 : CharAt(Digits, i) = c) - 1]

IsDigit(c) == c \in DOMAIN DigitValues

DigitValue(c) == DigitValues[c]

\* value of a non-empty string of decimal digits
RECURSIVE DigitsValue(_)
DigitsValue(s) ==
    IF Len(s) = 0 THEN 0
    ELSE 10 * DigitsValue(SubSeq(s, 1, Len(s) - 1)) + DigitValue(CharAt(s, Len(s)))

\* length of the longest prefix of s made of decimal digits
RECURSIVE DigitPrefixLen(_)
DigitPrefixLen(s) ==
    IF Len(s) = 0 \/ ~IsDigit(CharAt(s, 1)) THEN 0
    ELSE 1 + DigitPrefixLen(SubSeq(s, 2, Len(s)))

NaN == -1

\* parseInt(s) for the strings the backend sends as timestamps: the longest
\* digit prefix, NaN when there is none (no sign, no leading blanks occur)
parseInt(s) ==
    IF DigitPrefixLen(s) = 0 THEN NaN
    ELSE DigitsValue(SubSeq(s, 1, DigitPrefixLen(s)))

\* String(n) for a natural number n
RECURSIVE NumberToString(_)
NumberToString(n) ==
    IF n < 10 THEN CharAt(Digits, n + 1)
    ELSE NumberToString(n \div 10) \o CharAt(Digits, (n % 10) + 1)

\* s includes needle (String.prototype.includes)
Includes(s, needle) ==
    \E i \in 1..(Len(s) - Len(needle) + 1) : SubSeq(s, i, i + Len(needle) - 1) = needle

(***************************************************************************)
(* Diagnostics: what is handed to logger.info / warn / error.              *)
(***************************************************************************)
LogInfo(data, msg) == [level |-> "info", msg |-> msg, data |-> data]

LogWarn(data, msg) == [level |-> "warn", msg |-> msg, data |-> data]

LogError(data, msg) == [level |-> "error", msg |-> msg, data |-> data]

\* a thrown value: an Error carrying a message, or any other value
Error(message) == [isError |-> TRUE, message |-> message]

NonError(value) == [isError |-> FALSE, message |-> value]

\* error instanceof Error ? error.message : 'Unknown error'
ErrorMessage(err) == IF err.isError THEN err.message ELSE "Unknown error"

(***************************************************************************)
(* parseTimeRange (src/unnamed/part_000)                                   *)
(***************************************************************************)
Units == {"s", "m", "h", "d"}

\* timeRange.match(/^(\d+)([smhd])$/)
TimeRangeMatches(timeRange) ==
    /\ Len(timeRange) >= 2
    /\ \A i \in 1..(Len(timeRange) - 1) : IsDigit(CharAt(timeRange, i))
    /\ CharAt(timeRange, Len(timeRange)) \in Units

\* variant: a minute is taken for sixty milliseconds
multipliersShortMinute ==
    [u \in Units |->
        CASE u = "s" -> 1000
          [] u = "m" -> 60
          [] u = "h" -> 60 * 60 * 1000
          [] u = "d" -> 24 * 60 * 60 * 1000]

multipliers ==
    [u \in Units |->
        CASE u = "s" -> 1000
          [] u = "m" -> 60 * 1000
          [] u = "h" -> 60 * 60 * 1000
          [] u = "d" -> 24 * 60 * 60 * 1000]

\* the exact value of a string of decimal digits of any length
RECURSIVE BigFromDigits(_)
BigFromDigits(s) ==
    IF Len(s) <= 6 THEN BigFromInt(DigitsValue(s))
    ELSE BigAddSmall(BigMulSmall(BigFromDigits(SubSeq(s, 1, Len(s) - 6)), 1000000),
                     DigitsValue(SubSeq(s, Len(s) - 5, Len(s))))

\* a * c for 0 < c < 2^31 (split so that no partial product overflows)
BigMul(a, c) ==
    IF c % 1000 = 0 THEN BigMulSmall(BigMulSmall(a, c \div 1000), 1000)
    ELSE BigMulSmall(a, c)

\* the integer a double with a non-negative exponent stands for
F64ToBig(x) == BigShl(x.m, x.e)

\* line 16: parseInt(match[1]) is the double nearest to the digits' value
parseIntDigits(digits) == F64RoundNearestEven(BigFromDigits(digits), FALSE, 0)

\* lines 8-26: the double parseTimeRange returns
parseTimeRangeValue(timeRange) ==
    IF ~TimeRangeMatches(timeRange)
    THEN F64FromInt(24 * 60 * 60 * 1000)
    ELSE LET value == parseIntDigits(SubSeq(timeRange, 1, Len(timeRange) - 1))
             unit  == CharAt(timeRange, Len(timeRange))
         IN  F64RoundNearestEven(BigMul(value.m, multipliers[unit]), FALSE, value.e)

\* the number parseTimeRange returns, for the ranges below 2^31 ms that the
\* entry points are called with
parseTimeRange(timeRange) == BigToInt(F64ToBig(parseTimeRangeValue(timeRange)))

\* the diagnostics parseTimeRange emits; hasLogger is `if (logger)`
parseTimeRangeLog(timeRange, hasLogger) ==
    IF ~TimeRangeMatches(timeRange) /\ hasLogger
    THEN <<LogWarn([timeRange |-> timeRange],
                   "Invalid time range format, defaulting to 24h")>>
    ELSE <<>>

(***************************************************************************)
(* Date: new Date(ms).toISOString() and new Date(iso).getTime().  The      *)
(* instants that occur lie within the first day of the epoch, so the date  *)
(* part of the ISO string is constant and only the time of day is          *)
(* formatted and parsed.                                                   *)
(***************************************************************************)
Pad2(n) == IF n < 10 THEN "0" \o NumberToString(n) ELSE NumberToString(n)

Pad3(n) == IF n < 100 THEN "0" \o Pad2(n) ELSE NumberToString(n)

toISOString(ms) ==
    "1970-01-01T" \o Pad2(ms \div 3600000) \o ":" \o Pad2((ms \div 60000) % 60)
        \o ":" \o Pad2((ms \div 1000) % 60) \o "." \o Pad3(ms % 1000) \o "Z"

getTime(iso) ==
    ((DigitsValue(SubSeq(iso, 12, 13)) * 60 + DigitsValue(SubSeq(iso, 15, 16))) * 60
        + DigitsValue(SubSeq(iso, 18, 19))) * 1000 + DigitsValue(SubSeq(iso, 21, 23))

(***************************************************************************)
(* Array helpers                                                           *)
(***************************************************************************)
Min(a, b) == IF a < b THEN a ELSE b

Max(a, b) == IF a > b THEN a ELSE b

\* arr.slice(0, end)
Slice(arr, end) ==
    IF end >= 0 THEN SubSeq(arr, 1, Min(end, Len(arr)))
    ELSE SubSeq(arr, 1, Max(Len(arr) + end, 0))

\* position order of arr.sort((a, b) => key(b) - key(a)): Array.prototype.sort
\* is stable, so an element moves in front of another only when its key is
\* strictly larger.  keys[i] is the key of arr[i]; order lists indices.
\* i goes in front of the first index whose key is smaller: order is
\* descending, so that is behind the indices whose key is not smaller
InsertDescending(order, i, keys) ==
    LET ahead == Cardinality({j \in 1..Len(order) : keys[i] - keys[order[j]] <= 0})
    IN  SubSeq(order, 1, ahead) \o <<i>> \o SubSeq(order, ahead + 1, Len(order))

\* the indices lo..hi inserted one after the other: those up to mid are in
\* place before the next is looked at
RECURSIVE InsertRange(_, _, _, _)
InsertRange(order, lo, hi, keys) ==
    IF lo > hi THEN order
    ELSE IF lo = hi THEN InsertDescending(order, lo, keys)
    ELSE LET mid  == (lo + hi) \div 2
             done == InsertRange(order, lo, mid, keys)
         IN  IF Len(done) = Len(order) + mid - lo + 1
             THEN InsertRange(done, mid + 1, hi, keys)
             ELSE done

SortOrder(n, keys) == InsertRange(<<>>, 1, n, keys)

SortDescending(arr, keys) ==
    LET order == SortOrder(Len(arr), keys)
    IN  [j \in 1..Len(arr) |-> arr[order[j]]]

RECURSIVE SumOver(_, _)
SumOver(f, dom) ==
    IF dom = {} THEN 0
    ELSE LET x == CHOOSE y \in dom : TRUE IN f[x] + SumOver(f, dom \ {x})

(***************************************************************************)
(* Backend payloads.  A log line is a JSON text; what matters of it is     *)
(* what JSON.parse makes of it: a syntax error, null, or an object whose   *)
(* properties read as a string or as Undefined.                            *)
(***************************************************************************)
InvalidLine(text) == [json |-> "invalid", text |-> text]

NullLine == [json |-> "null"]

ObjectLine(path, session_id, client_ip, referrer) ==
    [json |-> "object", path |-> path, session_id |-> session_id,
     user_id |-> Undefined, client_ip |-> client_ip, referrer |-> referrer,
     user_agent |-> "Mozilla/5.0"]

Entry(timestamp, logLine) == [timestamp |-> timestamp, logLine |-> logLine]

Stream(values) == [kind |-> "values", values |-> values]

\* a stream object without a `values` array
StreamNoValues == [kind |-> "noValues"]

BodyResult(result) == [kind |-> "result", result |-> result]

\* {} , {data: {}} and null as decoded bodies
BodyNoData == [kind |-> "noData"]

BodyNoResult == [kind |-> "noResult"]

BodyNull == [kind |-> "null"]

NanosPerMilli == 1000000

(***************************************************************************)
(* getPageViews, service.ts lines 36-92                                    *)
(***************************************************************************)
Query == "{job=\"stonewall-observability\"} | json | component=\"analytics\" | event_type=\"page_view\""

\* encodeURIComponent(Query)
EncodedQuery == "%7Bjob%3D%22stonewall-observability%22%7D%20%7C%20json%20%7C%20component%3D%22analytics%22%20%7C%20event_type%3D%22page_view%22"

\* `${ms}000000`
NanosText(ms) == [ms |-> ms, suffix |-> "000000"]

\* `${start}000000` for the double `start` of line 39.  An instant within
\* 31 bits is written as NanosText writes it; a wider one is kept as its
\* sign and magnitude, and is spelt with an exponent from 10^21 on
\* (Number::toString), the six zeros following the exponent
StartText(start) ==
    LET big == BigShl(start.abs.m, start.abs.e)
    IN  IF BigBitLen(big) < 31
        THEN NanosText(IF start.neg THEN 0 - BigToInt(big) ELSE BigToInt(big))
        ELSE [neg |-> start.neg, abs |-> big,
              exponent |-> ~BigLess(big, BigMulSmall(BigMulSmall(BigFromInt(1000000000),
                                                                  1000000), 1000000)),
              suffix |-> "000000"]

\* variant: the window starts at the length of the range, not that long
\* before its end
QueryPathFromEpoch(timeRange, limit, now) ==
    [endpoint |-> "/loki/api/v1/query_range",
     query    |-> EncodedQuery,
     start    |-> StartText([neg |-> FALSE, abs |-> parseTimeRangeValue(timeRange)]),
     end      |-> NanosText(now),
     limit    |-> limit]

\* lines 38-42: the path handed to fetchLoki
QueryPath(timeRange, limit, now) ==
    [endpoint |-> "/loki/api/v1/query_range",
     query    |-> EncodedQuery,
     start    |-> StartText(F64Sub(F64FromInt(now), parseTimeRangeValue(timeRange))),
     end      |-> NanosText(now),
     limit    |-> limit]

\* lines 39 and 44: diagnostics emitted before the backend call
StartLog(timeRange, limit) ==
    parseTimeRangeLog(timeRange, TRUE)
        \o <<LogInfo([timeRange |-> timeRange, limit |-> limit, query |-> Query],
                     "Fetching page views from Loki")>>

\* lines 63-76: one entry; the inner try/catch turns any throw into a warning
DecodeEntry(entry) ==
    LET line   == entry.logLine
        nanos  == parseInt(entry.timestamp)
        failed == IF line.json = "invalid" THEN "SyntaxError"
                  ELSE IF nanos = NaN THEN "RangeError: Invalid time value"
                  ELSE IF line.json = "null" THEN "TypeError"
                  ELSE ""
    IN  IF failed # ""
        THEN [views |-> <<>>,
              log   |-> <<LogWarn([logLine |-> line, error |-> failed],
                                  "Failed to parse log line")>>]
        ELSE [views |-> <<[timestamp |-> toISOString(F64Trunc(F64Div(F64FromInt(nanos), NanosPerMilli))),
                           path      |-> OrElse(line.path, "/"),
                           sessionId |-> line.session_id,
                           userId    |-> line.user_id,
                           clientIp  |-> line.client_ip,
                           referrer  |-> line.referrer,
                           userAgent |-> line.user_agent]>>,
              log   |-> <<>>]

\* variant: the first entry that fails to decode ends the stream's loop
RECURSIVE DecodeValuesStopAtFailure(_)
DecodeValuesStopAtFailure(values) ==
    IF values = <<>> THEN [views |-> <<>>, log |-> <<>>]
    ELSE LET d    == DecodeEntry(Head(values))
             rest == IF d.views = <<>> THEN [views |-> <<>>, log |-> <<>>]
                     ELSE DecodeValuesStopAtFailure(Tail(values))
         IN  [views |-> d.views \o rest.views, log |-> d.log \o rest.log]

\* lines 62-77: every entry of one stream, in order
RECURSIVE DecodeValues(_)
DecodeValues(values) ==
    IF values = <<>> THEN [views |-> <<>>, log |-> <<>>]
    ELSE IF Len(values) = 1
    THEN LET d == DecodeEntry(values[1]) IN [views |-> d.views, log |-> d.log]
    ELSE LET mid   == Len(values) \div 2
             first == DecodeValues(SubSeq(values, 1, mid))
             rest  == DecodeValues(SubSeq(values, mid + 1, Len(values)))
         IN  [views |-> first.views \o rest.views, log |-> first.log \o rest.log]

\* lines 61-78: thrown is set when `stream.values` is not iterable, which
\* leaves both loops for the outer catch
RECURSIVE DecodeStreams(_)
DecodeStreams(result) ==
    IF result = <<>> THEN [views |-> <<>>, log |-> <<>>, thrown |-> FALSE]
    ELSE IF Head(result).kind # "values"
    THEN [views |-> <<>>, log |-> <<>>, thrown |-> TRUE]
    ELSE LET d    == DecodeValues(Head(result).values)
             rest == DecodeStreams(Tail(result))
         IN  [views |-> d.views \o rest.views, log |-> d.log \o rest.log,
              thrown |-> rest.thrown]

\* variant: the list is returned in arrival order
SortPageViewsUnsorted(pageViews) == pageViews

\* lines 82-84
SortPageViews(pageViews) ==
    SortDescending(pageViews, [i \in 1..Len(pageViews) |-> getTime(pageViews[i].timestamp)])

\* an async function's settlement: its value, or that it raised, and the
\* diagnostics it emitted on the way
Fulfilled(value, log) == [raised |-> FALSE, value |-> value, log |-> log]

Rejected(err, log) == [raised |-> TRUE, value |-> err, log |-> log]

\* variant: the catch block rethrows instead of returning []
getPageViewsCatchRethrows(err, log) == Rejected(err, log)

\* variant: the catch block returns [] without reporting the failure
getPageViewsCatchSilent(err, log) == Fulfilled(<<>>, log)

\* lines 85-91
getPageViewsCatch(err, log) ==
    Fulfilled(<<>>, log \o <<LogError([error |-> ErrorMessage(err)],
                                      "Failed to fetch page views from Loki")>>)

\* lines 47-49
StatusError(response) ==
    Error("Loki query failed: " \o NumberToString(response.status) \o " "
              \o response.statusText)

\* the decoded body makes lines 60-62 throw: it is null, or one of its
\* streams has no iterable `values`
BodyMalformed(body) ==
    \/ body.kind = "null"
    \/ body.kind = "result" /\ DecodeStreams(body.result).thrown

\* variant: `data.data.result` is read without the optional chaining, so a
\* body without `data` throws and a body without `result` is iterated
getPageViewsBodyRequiresData(body) ==
    IF body.kind = "null"
    THEN getPageViewsCatch(Error("Cannot read properties of null (reading 'data')"), <<>>)
    ELSE IF body.kind = "noData"
    THEN getPageViewsCatch(Error("Cannot read properties of undefined (reading 'result')"), <<>>)
    ELSE IF body.kind = "noResult"
    THEN getPageViewsCatch(Error("data.data.result is not iterable"), <<>>)
    ELSE LET d == DecodeStreams(body.result)
         IN  IF BodyMalformed(body)
             THEN getPageViewsCatch(Error("stream.values is not iterable"), d.log)
             ELSE Fulfilled(SortPageViews(d.views),
                            d.log \o <<LogInfo([count |-> Len(d.views)],
                                               "Fetched page views from Loki")>>)

\* lines 51-84 and the catch: the continuation after `await response.json()`
getPageViewsBody(body) ==
    IF body.kind = "null"
    THEN getPageViewsCatch(Error("Cannot read properties of null (reading 'data')"), <<>>)
    ELSE IF body.kind # "result"
    THEN Fulfilled(<<>>, <<LogInfo([count |-> 0], "Fetched page views from Loki")>>)
    ELSE LET d == DecodeStreams(body.result)
         IN  IF BodyMalformed(body)
             THEN getPageViewsCatch(Error("stream.values is not iterable"), d.log)
             ELSE Fulfilled(SortPageViews(d.views),
                            d.log \o <<LogInfo([count |-> Len(d.views)],
                                               "Fetched page views from Loki")>>)

(***************************************************************************)
(* The aggregations, each over the list its own getPageViews returned.     *)
(* A Map is a sequence of entries in insertion order.                      *)
(***************************************************************************)
\* lines 104-108: pathCounts
RECURSIVE CountPaths(_, _)
CountPaths(pageViews, pathCounts) ==
    IF pageViews = <<>> THEN pathCounts
    ELSE LET path == Head(pageViews).path
             seen == \E i \in 1..Len(pathCounts) : pathCounts[i].path = path
         IN  CountPaths(Tail(pageViews),
                IF seen
                THEN [i \in 1..Len(pathCounts) |->
                        IF pathCounts[i].path = path
                        THEN [path |-> path, views |-> pathCounts[i].views + 1]
                        ELSE pathCounts[i]]
                ELSE Append(pathCounts, [path |-> path, views |-> 1]))

\* variant: the entries are cut to the limit before they are sorted
TopPagesSliceFirst(pageViews, limit) ==
    LET entries == Slice(CountPaths(pageViews, <<>>), limit)
    IN  SortDescending(entries, [i \in 1..Len(entries) |-> entries[i].views])

\* lines 104-115
TopPages(pageViews, limit) ==
    LET entries == CountPaths(pageViews, <<>>)
    IN  Slice(SortDescending(entries, [i \in 1..Len(entries) |-> entries[i].views]), limit)

\* line 134
VisitorId(view) == OrElse(view.sessionId, OrElse(view.clientIp, "unknown"))

\* variant: only the events with neither field are left out
UniqueVisitorsOwnMarker(pageViews) ==
    Cardinality({VisitorId(pageViews[i]) :
                    i \in {j \in 1..Len(pageViews) :
                              Truthy(pageViews[j].sessionId) \/ Truthy(pageViews[j].clientIp)}})

\* lines 132-140
UniqueVisitors(pageViews) ==
    Cardinality({VisitorId(pageViews[i]) : i \in 1..Len(pageViews)} \ {"unknown"})

\* variant: an event without sessionId is counted by its clientIp
ActiveUsersByVisitorId(pageViews) == UniqueVisitors(pageViews)

\* variant: every view of a session counts
ActiveUsersCountsViews(pageViews) ==
    Cardinality({j \in 1..Len(pageViews) : Truthy(pageViews[j].sessionId)})

\* lines 157-164
ActiveUsers(pageViews) ==
    Cardinality({pageViews[i].sessionId :
                    i \in {j \in 1..Len(pageViews) : Truthy(pageViews[j].sessionId)}})

\* lines 181-196: sessionMap, keyed by sessionId
RECURSIVE SessionMap(_, _)
SessionMap(pageViews, sessionMap) ==
    IF pageViews = <<>> THEN sessionMap
    ELSE LET view      == Head(pageViews)
             timestamp == getTime(view.timestamp)
         IN  IF ~Truthy(view.sessionId)
             THEN SessionMap(Tail(pageViews), sessionMap)
             ELSE IF view.sessionId \notin DOMAIN sessionMap
             THEN SessionMap(Tail(pageViews),
                     [s \in DOMAIN sessionMap \cup {view.sessionId} |->
                        IF s = view.sessionId
                        THEN [first |-> timestamp, last |-> timestamp, count |-> 1]
                        ELSE sessionMap[s]])
             ELSE SessionMap(Tail(pageViews),
                     [sessionMap EXCEPT ![view.sessionId] =
                        [first |-> Min(@.first, timestamp),
                         last  |-> Max(@.last, timestamp),
                         count |-> @.count + 1]])

\* the empty Map
EmptyMap == [s \in {} |-> 0]

\* variant: the mean is truncated instead of rounded
MeanSecondsTruncated(totalDuration, sessions) ==
    F64Trunc(F64Div(F64Div(F64FromInt(totalDuration), sessions), 1000))

\* line 205: Math.round(totalDuration / sessions.length / 1000)
MeanSeconds(totalDuration, sessions) ==
    MathRound(F64Div(F64Div(F64FromInt(totalDuration), sessions), 1000))

\* lines 181-205
AverageSessionDuration(pageViews) ==
    LET sessionMap == SessionMap(pageViews, EmptyMap)
        durations  == [s \in DOMAIN sessionMap |-> sessionMap[s].last - sessionMap[s].first]
    IN  IF DOMAIN sessionMap = {} THEN 0
        ELSE MeanSeconds(SumOver(durations, DOMAIN sessionMap),
                         Cardinality(DOMAIN sessionMap))

\* lines 222-229: sessionCounts
RECURSIVE SessionCounts(_, _)
SessionCounts(pageViews, sessionCounts) ==
    IF pageViews = <<>> THEN sessionCounts
    ELSE IF Len(pageViews) = 1
    THEN LET view == pageViews[1]
         IN  IF ~Truthy(view.sessionId) THEN sessionCounts
             ELSE [s \in DOMAIN sessionCounts \cup {view.sessionId} |->
                      IF s = view.sessionId
                      THEN (IF s \in DOMAIN sessionCounts THEN sessionCounts[s] ELSE 0) + 1
                      ELSE sessionCounts[s]]
    ELSE LET mid   == Len(pageViews) \div 2
             first == SessionCounts(SubSeq(pageViews, 1, mid), sessionCounts)
         IN  IF DOMAIN sessionCounts \subseteq DOMAIN first
             THEN SessionCounts(SubSeq(pageViews, mid + 1, Len(pageViews)), first)
             ELSE first

\* line 237: Math.round((bounceSessions / sessionCounts.size) * 100)
BouncePercent(bounceSessions, size) ==
    MathRound(F64Mul(F64Div(F64FromInt(bounceSessions), size), 100))

\* lines 222-237
BounceRate(pageViews) ==
    LET sessionCounts == SessionCounts(pageViews, EmptyMap)
    IN  IF DOMAIN sessionCounts = {} THEN 0
        ELSE BouncePercent(Cardinality({s \in DOMAIN sessionCounts : sessionCounts[s] = 1}),
                           Cardinality(DOMAIN sessionCounts))

\* position of the first occurrence of needle in s, 0 when there is none
IndexOf(s, needle) ==
    IF Includes(s, needle)
    THEN CHOOSE i \in 1..Len(s) :
            /\ SubSeq(s, i, i + Len(needle) - 1) = needle
            /\ \A j \in 1..(i - 1) : SubSeq(s, j, j + Len(needle) - 1) # needle
    ELSE 0

\* end of the host part: the first of / ? # : after position from, or the end
RECURSIVE HostEnd(_, _)
HostEnd(s, from) ==
    IF from > Len(s) \/ CharAt(s, from) \in {"/", "?", "#", ":"} THEN from - 1
    ELSE HostEnd(s, from + 1)

\* new URL(referrer).hostname for an http(s) referrer; InvalidURL when the
\* constructor throws (no scheme, or no host)
InvalidURL == "<TypeError: Invalid URL>"

URLHostname(referrer) ==
    LET sep   == IndexOf(referrer, "://")
        start == sep + 3
    IN  IF sep = 0 \/ SubSeq(referrer, 1, sep - 1) \notin {"http", "https"}
           \/ HostEnd(referrer, start) < start
        THEN InvalidURL
        ELSE SubSeq(referrer, start, HostEnd(referrer, start))

\* variant: the github rule is tried before the others
ClassifyHostnameGithubFirst(hostname) ==
    IF Includes(hostname, "github") THEN "GitHub"
    ELSE IF Includes(hostname, "google") THEN "Google"
    ELSE IF Includes(hostname, "bing") THEN "Bing"
    ELSE IF Includes(hostname, "duckduckgo") THEN "DuckDuckGo"
    ELSE IF Includes(hostname, "twitter") \/ hostname = "t.co" THEN "Twitter"
    ELSE IF Includes(hostname, "facebook") THEN "Facebook"
    ELSE IF Includes(hostname, "reddit") THEN "Reddit"
    ELSE hostname

\* lines 269-277
ClassifyHostname(hostname) ==
    IF Includes(hostname, "google") THEN "Google"
    ELSE IF Includes(hostname, "bing") THEN "Bing"
    ELSE IF Includes(hostname, "duckduckgo") THEN "DuckDuckGo"
    ELSE IF Includes(hostname, "twitter") \/ hostname = "t.co" THEN "Twitter"
    ELSE IF Includes(hostname, "facebook") THEN "Facebook"
    ELSE IF Includes(hostname, "reddit") THEN "Reddit"
    ELSE IF Includes(hostname, "github") THEN "GitHub"
    ELSE hostname

\* lines 260-287: the bucket of one view
SourceOf(view) ==
    IF ~Truthy(view.referrer) THEN "Direct"
    ELSE IF URLHostname(view.referrer) = InvalidURL THEN "Direct"
    ELSE ClassifyHostname(URLHostname(view.referrer))

\* variant: an event without sessionId does not open a bucket
RECURSIVE SourceCountsSkipAnonymous(_, _)
SourceCountsSkipAnonymous(pageViews, sourceCounts) ==
    IF pageViews = <<>> THEN sourceCounts
    ELSE LET view   == Head(pageViews)
             source == SourceOf(view)
             seen   == \E i \in 1..Len(sourceCounts) : sourceCounts[i].source = source
         IN  SourceCountsSkipAnonymous(Tail(pageViews),
                IF ~Truthy(view.sessionId) THEN sourceCounts
                ELSE IF seen
                THEN [i \in 1..Len(sourceCounts) |->
                        IF sourceCounts[i].source = source
                        THEN [source |-> source,
                              sessions |-> sourceCounts[i].sessions \cup {view.sessionId}]
                        ELSE sourceCounts[i]]
                ELSE Append(sourceCounts, [source |-> source, sessions |-> {view.sessionId}]))

\* lines 257-288: sourceCounts
RECURSIVE SourceCounts(_, _)
SourceCounts(pageViews, sourceCounts) ==
    IF pageViews = <<>> THEN sourceCounts
    ELSE LET view   == Head(pageViews)
             source == SourceOf(view)
             added  == IF Truthy(view.sessionId) THEN {view.sessionId} ELSE {}
             seen   == \E i \in 1..Len(sourceCounts) : sourceCounts[i].source = source
         IN  SourceCounts(Tail(pageViews),
                IF seen
                THEN [i \in 1..Len(sourceCounts) |->
                        IF sourceCounts[i].source = source
                        THEN [source |-> source, sessions |-> sourceCounts[i].sessions \cup added]
                        ELSE sourceCounts[i]]
                ELSE Append(sourceCounts, [source |-> source, sessions |-> added]))

\* variant: the buckets are cut to the limit before they are sorted
TrafficSourcesSliceFirst(pageViews, limit) ==
    LET counts  == SourceCounts(pageViews, <<>>)
        entries == Slice([i \in 1..Len(counts) |->
                            [source |-> counts[i].source,
                             visits |-> Cardinality(counts[i].sessions)]], limit)
    IN  SortDescending(entries, [i \in 1..Len(entries) |-> entries[i].visits])

\* lines 257-295
TrafficSources(pageViews, limit) ==
    LET counts  == SourceCounts(pageViews, <<>>)
        entries == [i \in 1..Len(counts) |->
                        [source |-> counts[i].source, visits |-> Cardinality(counts[i].sessions)]]
    IN  Slice(SortDescending(entries, [i \in 1..Len(entries) |-> entries[i].visits]), limit)

(***************************************************************************)
(* Entry points                                                            *)
(***************************************************************************)
SingleOps ==
    {"getPageViews", "getTopPages", "getUniqueVisitors", "getActiveUsers",
     "getAverageSessionDuration", "getBounceRate", "getTrafficSources"}

\* the five calls of Promise.all, lines 312-316, in the order they are made
MetricsBranches ==
    <<"getPageViews", "getTopPages", "getUniqueVisitors",
      "getAverageSessionDuration", "getBounceRate">>

\* variant: the aggregations forget to pass their timeRange on
PageViewsArgsDefaultRange(op, timeRange, limit) ==
    CASE op = "getPageViews"   -> [timeRange |-> timeRange, limit |-> limit]
      [] op = "getActiveUsers" -> [timeRange |-> "5m", limit |-> 1000]
      [] OTHER                 -> [timeRange |-> "24h", limit |-> 10000]

\* variant: every aggregation fetches with getPageViews' default limit
PageViewsArgsSameLimit(op, timeRange, limit) ==
    CASE op = "getPageViews"   -> [timeRange |-> timeRange, limit |-> limit]
      [] op = "getActiveUsers" -> [timeRange |-> "5m", limit |-> 1000]
      [] OTHER                 -> [timeRange |-> timeRange, limit |-> 1000]

\* variant: the rankings fetch no more events than the caller asked to see
PageViewsArgsCallerLimit(op, timeRange, limit) ==
    CASE op = "getPageViews"   -> [timeRange |-> timeRange, limit |-> limit]
      [] op = "getActiveUsers" -> [timeRange |-> "5m", limit |-> 1000]
      [] op \in {"getTopPages", "getTrafficSources"}
                               -> [timeRange |-> timeRange, limit |-> limit]
      [] OTHER                 -> [timeRange |-> timeRange, limit |-> 10000]

\* the arguments an entry point hands to getPageViews (lines 102, 130, 155,
\* 179, 220, 255); getPageViews itself runs on its caller's arguments
PageViewsArgs(op, timeRange, limit) ==
    CASE op = "getPageViews"   -> [timeRange |-> timeRange, limit |-> limit]
      [] op = "getActiveUsers" -> [timeRange |-> "5m", limit |-> 1000]
      [] OTHER                 -> [timeRange |-> timeRange, limit |-> 10000]

\* what the try block of an aggregation computes from the fetched list
Aggregate(op, pageViews, limit) ==
    CASE op = "getTopPages"               -> TopPages(pageViews, limit)
      [] op = "getUniqueVisitors"         -> UniqueVisitors(pageViews)
      [] op = "getActiveUsers"            -> ActiveUsers(pageViews)
      [] op = "getAverageSessionDuration" -> AverageSessionDuration(pageViews)
      [] op = "getBounceRate"             -> BounceRate(pageViews)
      [] op = "getTrafficSources"         -> TrafficSources(pageViews, limit)

\* what the catch block of an entry point returns
CatchValue(op) ==
    IF op \in {"getPageViews", "getTopPages", "getTrafficSources"} THEN <<>> ELSE 0

CatchMessage(op) ==
    CASE op = "getTopPages"               -> "Failed to get top pages"
      [] op = "getUniqueVisitors"         -> "Failed to get unique visitors"
      [] op = "getActiveUsers"            -> "Failed to get active users"
      [] op = "getAverageSessionDuration" -> "Failed to calculate average session duration"
      [] op = "getBounceRate"             -> "Failed to calculate bounce rate"
      [] op = "getTrafficSources"         -> "Failed to get traffic sources"

\* an entry point's settlement, given the settlement pv of the getPageViews
\* it awaits: the try/catch of lines 101-122 and its five siblings
Settlement(op, limit, pv) ==
    IF op = "getPageViews" THEN pv
    ELSE IF pv.raised
    THEN Fulfilled(CatchValue(op),
                   pv.log \o <<LogError([error |-> ErrorMessage(pv.value)], CatchMessage(op))>>)
    ELSE Fulfilled(Aggregate(op, pv.value, limit), pv.log)

\* variant: two number-valued results bound to each other's field
ComposeMetricsSwapped(results) ==
    [totalPageViews         |-> Len(results[1]),
     uniqueVisitors         |-> results[5],
     topPages               |-> results[2],
     averageSessionDuration |-> results[4],
     bounceRate             |-> results[3]]

\* lines 319-325: results lists what the five branches returned, in the
\* order of MetricsBranches
ComposeMetrics(results) ==
    [totalPageViews         |-> Len(results[1]),
     uniqueVisitors         |-> results[3],
     topPages               |-> results[2],
     averageSessionDuration |-> results[4],
     bounceRate             |-> results[5]]

\* lines 331-337
ZeroMetrics ==
    [totalPageViews |-> 0, uniqueVisitors |-> 0, topPages |-> <<>>,
     averageSessionDuration |-> 0, bounceRate |-> 0]

(***************************************************************************)
(* Configuration and construction: config.ts, and service.ts lines 5-9,    *)
(* 24-30 and 346-355.                                                      *)
(***************************************************************************)
\* `config` before configure() and after resetConfig()
Null == [null |-> TRUE]

\* `analyticsDataService` before the first createAnalyticsDataService()
NoService == [undefined |-> TRUE]

\* a synchronous call's completion: its value, or the value it threw
Returned(value) == [raised |-> FALSE, value |-> value]

Thrown(err) == [raised |-> TRUE, value |-> err]

\* variant: only the first bundle is ever installed
configureOnce(config, c) == IF config = Null THEN c ELSE config

\* config.ts lines 9-11: the value of `config` after configure(c)
configure(config, c) == c

\* config.ts lines 27-29: the value of `config` after resetConfig()
resetConfig(config) == Null

\* config.ts lines 17-22
getConfig(config) ==
    IF config = Null
    THEN Thrown(Error("tinyland-analytics-data: call configure() before use"))
    ELSE Returned(config)

\* service.ts lines 5-9
defaultLogger == "console"

\* variant: the logger field is copied as it is, without the fallback
AnalyticsDataServiceNoFallback(config, id) ==
    LET c == getConfig(config)
    IN  IF c.raised THEN c
        ELSE Returned([id |-> id, lokiUrl |-> c.value.lokiUrl,
                       prometheusUrl |-> c.value.prometheusUrl,
                       fetchLoki |-> c.value.fetchLoki, logger |-> c.value.logger])

\* variant: without a configuration the service is built on defaults
AnalyticsDataServiceOnDefaults(config, id) ==
    LET c == getConfig(config)
    IN  Returned([id |-> id,
                  lokiUrl |-> IF c.raised THEN "" ELSE c.value.lokiUrl,
                  prometheusUrl |-> IF c.raised THEN "" ELSE c.value.prometheusUrl,
                  fetchLoki |-> IF c.raised THEN Undefined ELSE c.value.fetchLoki,
                  logger |-> IF c.raised \/ c.value.logger = Undefined
                             THEN defaultLogger ELSE c.value.logger])

\* service.ts lines 24-30: new AnalyticsDataService(); id tells the
\* instances apart
AnalyticsDataService(config, id) ==
    LET c == getConfig(config)
    IN  IF c.raised THEN c
        ELSE Returned([id |-> id, lokiUrl |-> c.value.lokiUrl,
                       prometheusUrl |-> c.value.prometheusUrl,
                       fetchLoki |-> c.value.fetchLoki,
                       logger |-> IF c.value.logger = Undefined
                                  THEN defaultLogger ELSE c.value.logger])

\* variant: the collaborators are looked up in the installed configuration
\* each time an entry point runs
CollaboratorsFromConfig(service, config) ==
    [instance  |-> service.id,
     fetchLoki |-> IF config = Null THEN Undefined ELSE config.fetchLoki,
     logger    |-> IF config = Null THEN Undefined
                   ELSE IF config.logger = Undefined THEN defaultLogger ELSE config.logger]

\* service.ts lines 44 and 46: an entry point reaches its collaborators as
\* this.logger and this.fetchLoki, the fields of the instance it runs on
Collaborators(service, config) ==
    [instance |-> service.id, fetchLoki |-> service.fetchLoki, logger |-> service.logger]

\* what this.logger.error(...) throws when this.logger is undefined; the
\* catch blocks of lines 85-91 and of each entry point then throw it on
LoggerTypeError == Error("Cannot read properties of undefined (reading 'error')")

(***************************************************************************)
(* State                                                                   *)
(*   call   the top-level invocation: entry point, arguments, where it     *)
(*          stands and what it returned                                    *)
(*   tasks  the entry-point activations that own a getPageViews call:      *)
(*          one for a single entry point, five for the rollup; log is what *)
(*          the activation handed to this.logger, in order                 *)
(*   calls  the paths handed to fetchLoki so far, in order                 *)
(*   config the module variable of config.ts                               *)
(*   analyticsDataService  the exported singleton of service.ts            *)
(*   service  the instance whose entry points are invoked                  *)
(*   api    the calls made so far to configure, resetConfig, getConfig,    *)
(*          the constructor and createAnalyticsDataService, each with its  *)
(*          argument, its completion, the singleton after it and the       *)
(*          number of instances made up to it                              *)
(***************************************************************************)
VARIABLES call, tasks, calls, config, analyticsDataService, service, api

vars == <<call, tasks, calls, config, analyticsDataService, service, api>>

wiring == <<config, analyticsDataService, service, api>>

NoBody == [kind |-> "none"]

\* the bundle the tests install: lokiUrl, prometheusUrl, fetchLoki, logger
MainConfig ==
    [lokiUrl |-> "http://loki:3100", prometheusUrl |-> "http://prometheus:9090",
     fetchLoki |-> "fetchLoki", logger |-> "logger"]

IdleCall ==
    [op |-> "none", timeRange |-> "", limit |-> 0, pc |-> "idle", result |-> <<>>, log |-> <<>>]

\* nothing installed, nothing constructed
InitUnconfigured ==
    /\ call = IdleCall
    /\ tasks = <<>>
    /\ calls = <<>>
    /\ config = Null
    /\ analyticsDataService = NoService
    /\ service = NoService
    /\ api = <<>>

\* configure(c) has been called and a service constructed
InitConfigured(configs) ==
    /\ call = IdleCall
    /\ tasks = <<>>
    /\ calls = <<>>
    /\ config \in configs
    /\ analyticsDataService = NoService
    /\ service = AnalyticsDataService(config, 1).value
    /\ api = <<>>

Init == InitConfigured({MainConfig})

\* variant: the start diagnostic is emitted once fetchLoki has been called
StartTaskCallsFirst(op, timeRange, limit, now) ==
    LET args == PageViewsArgs(op, timeRange, limit)
    IN  [op        |-> op,
         limit     |-> limit,
         pc        |-> "awaitFetch",
         path      |-> QueryPath(args.timeRange, args.limit, now),
         log       |-> StartLog(args.timeRange, args.limit),
         logged    |-> Len(parseTimeRangeLog(args.timeRange, TRUE)),
         bodyReads |-> 0,
         outcome   |-> "pending",
         body      |-> NoBody,
         pageViews |-> <<>>,
         result    |-> <<>>,
         uses      |-> Collaborators(service, config),
         after     |-> Len(api)]

\* an activation run up to `await this.fetchLoki(path)`, line 46; logged
\* is the number of diagnostics emitted when fetchLoki is called, uses the
\* collaborators it runs with and after the number of configuration and
\* construction calls made before it began
StartTask(op, timeRange, limit, now) ==
    LET args == PageViewsArgs(op, timeRange, limit)
    IN  [op        |-> op,
         limit     |-> limit,
         pc        |-> "awaitFetch",
         path      |-> QueryPath(args.timeRange, args.limit, now),
         log       |-> StartLog(args.timeRange, args.limit),
         logged    |-> Len(StartLog(args.timeRange, args.limit)),
         bodyReads |-> 0,
         outcome   |-> "pending",
         body      |-> NoBody,
         pageViews |-> <<>>,
         result    |-> <<>>,
         uses      |-> Collaborators(service, config),
         after     |-> Len(api)]

\* a caller invokes one of the seven single entry points of `service`.
\* Were this.logger undefined, line 44 would throw before the backend call
\* and the catch blocks, which log, would throw again.
Invoke(ops, timeRanges, limits, nows) ==
    /\ call.pc = "idle"
    /\ service # NoService
    /\ \E op \in ops, now \in nows :
       \E timeRange \in IF op = "getActiveUsers" THEN {""} ELSE timeRanges :
       \E limit \in IF op \in {"getPageViews", "getTopPages", "getTrafficSources"}
                    THEN limits[op] ELSE {0} :
          IF Collaborators(service, config).logger = Undefined
          THEN /\ call' = [call EXCEPT !.op = op, !.timeRange = timeRange, !.limit = limit,
                                       !.pc = "raised", !.result = LoggerTypeError]
               /\ UNCHANGED <<tasks, calls>>
          ELSE /\ call' = [call EXCEPT !.op = op, !.timeRange = timeRange,
                                       !.limit = limit, !.pc = "pending"]
               /\ tasks' = <<StartTask(op, timeRange, limit, now)>>
               /\ calls' = <<tasks'[1].path>>
    /\ UNCHANGED wiring

\* a caller invokes a further single entry point of `service` while the
\* invocations begun before it may still be pending; its activation runs up
\* to its backend call
InvokeAlso(ops, timeRanges, limits, nows, maxTasks) ==
    /\ call.pc \in {"pending", "returned"}
    /\ tasks # <<>>
    /\ Len(tasks) < maxTasks
    /\ service # NoService
    /\ Collaborators(service, config).logger # Undefined
    /\ \E op \in ops, now \in nows :
       \E timeRange \in IF op = "getActiveUsers" THEN {""} ELSE timeRanges :
       \E limit \in IF op \in {"getPageViews", "getTopPages", "getTrafficSources"}
                    THEN limits[op] ELSE {0} :
          /\ tasks' = Append(tasks, StartTask(op, timeRange, limit, now))
          /\ calls' = Append(calls, tasks'[Len(tasks')].path)
    /\ UNCHANGED <<call, wiring>>

\* Date.now() does not go backwards between the five starts
NonDecreasing(nows) == \A i \in 1..(Len(nows) - 1) : nows[i] <= nows[i + 1]

\* a caller invokes getAnalyticsMetrics: lines 310-317 start the five
\* branches one after the other, each running up to its backend call
InvokeMetrics(timeRanges, nows) ==
    /\ call.pc = "idle"
    /\ service # NoService
    /\ \E timeRange \in timeRanges :
       \E now \in {n \in [1..Len(MetricsBranches) -> nows] : NonDecreasing(n)} :
          IF Collaborators(service, config).logger = Undefined
          THEN /\ call' = [call EXCEPT !.op = "getAnalyticsMetrics", !.timeRange = timeRange,
                                       !.pc = "raised", !.result = LoggerTypeError]
               /\ UNCHANGED <<tasks, calls>>
          ELSE /\ call' = [call EXCEPT !.op = "getAnalyticsMetrics",
                                       !.timeRange = timeRange, !.pc = "pending"]
               /\ tasks' = [t \in 1..Len(MetricsBranches) |->
                               StartTask(MetricsBranches[t], timeRange,
                                         IF MetricsBranches[t] = "getPageViews" THEN 1000 ELSE 10,
                                         now[t])]
               /\ calls' = [t \in 1..Len(MetricsBranches) |-> tasks'[t].path]
    /\ UNCHANGED wiring

\* variant: the decoded events are pushed onto an array kept on the
\* instance, so an activation also sees what an earlier one left there
SettleSharedBuffer(t, outcome, body, pv) ==
    LET others == {u \in DOMAIN tasks : u # t /\ tasks[u].pageViews # <<>>}
        left   == IF others = {} THEN <<>>
                  ELSE tasks[CHOOSE u \in others : \A v \in others : u <= v].pageViews
        shared == IF pv.raised THEN pv ELSE [pv EXCEPT !.value = left \o @]
        out    == Settlement(tasks[t].op, tasks[t].limit, shared)
    IN  /\ tasks' = [tasks EXCEPT ![t] =
                        [@ EXCEPT !.pc        = IF out.raised THEN "rejected" ELSE "fulfilled",
                                  !.outcome   = outcome,
                                  !.body      = body,
                                  !.log       = @ \o out.log,
                                  !.pageViews = IF shared.raised THEN <<>> ELSE shared.value,
                                  !.result    = out.value]]
        /\ call' = IF call.op = "getAnalyticsMetrics" \/ t > 1 THEN call
                   ELSE [call EXCEPT !.pc = IF out.raised THEN "raised" ELSE "returned",
                                     !.result = out.value]
        /\ UNCHANGED <<calls, wiring>>

\* activation t settles with pv as the settlement of its getPageViews; the
\* settlement of the first single entry point is what `call` records, that
\* of an invocation begun beside it stays with its activation
Settle(t, outcome, body, pv) ==
    LET out == Settlement(tasks[t].op, tasks[t].limit, pv)
    IN  /\ tasks' = [tasks EXCEPT ![t] =
                        [@ EXCEPT !.pc        = IF out.raised THEN "rejected" ELSE "fulfilled",
                                  !.outcome   = outcome,
                                  !.body      = body,
                                  !.log       = @ \o out.log,
                                  !.pageViews = IF pv.raised THEN <<>> ELSE pv.value,
                                  !.result    = out.value]]
        /\ call' = IF call.op = "getAnalyticsMetrics" \/ t > 1 THEN call
                   ELSE [call EXCEPT !.pc = IF out.raised THEN "raised" ELSE "returned",
                                     !.result = out.value]
        /\ UNCHANGED <<calls, wiring>>

\* the promise of fetchLoki rejects (or fetchLoki throws): lines 85-91
FetchRejects(errors) ==
    \E t \in DOMAIN tasks :
        /\ tasks[t].pc = "awaitFetch"
        /\ \E err \in errors : Settle(t, "fetchRejected", NoBody, getPageViewsCatch(err, <<>>))

\* variant: the body is read before the status is looked at
FetchResolvesReadsBody(responses) ==
    \E t \in DOMAIN tasks :
        /\ tasks[t].pc = "awaitFetch"
        /\ \E response \in responses :
              IF response.ok
              THEN /\ tasks' = [tasks EXCEPT ![t] =
                                   [@ EXCEPT !.pc = "awaitJson", !.bodyReads = @ + 1]]
                   /\ UNCHANGED <<call, calls, wiring>>
              ELSE LET out == Settlement(tasks[t].op, tasks[t].limit,
                                         getPageViewsCatch(StatusError(response), <<>>))
                   IN  /\ tasks' = [tasks EXCEPT ![t] =
                                       [@ EXCEPT !.pc = "fulfilled", !.outcome = "badStatus",
                                                 !.bodyReads = @ + 1,
                                                 !.log = @ \o out.log, !.result = out.value]]
                       /\ call' = [call EXCEPT !.pc = "returned", !.result = out.value]
                       /\ UNCHANGED <<calls, wiring>>

\* the promise of fetchLoki resolves: lines 47-51.  A non-ok response is
\* thrown to the catch; an ok response has its json() called
FetchResolves(responses) ==
    \E t \in DOMAIN tasks :
        /\ tasks[t].pc = "awaitFetch"
        /\ \E response \in responses :
              IF response.ok
              THEN /\ tasks' = [tasks EXCEPT ![t] =
                                   [@ EXCEPT !.pc = "awaitJson", !.bodyReads = @ + 1]]
                   /\ UNCHANGED <<call, calls, wiring>>
              ELSE Settle(t, "badStatus", NoBody,
                          getPageViewsCatch(StatusError(response), <<>>))

\* the promise of response.json() rejects: lines 85-91
JsonRejects(errors) ==
    \E t \in DOMAIN tasks :
        /\ tasks[t].pc = "awaitJson"
        /\ \E err \in errors : Settle(t, "jsonRejected", NoBody, getPageViewsCatch(err, <<>>))

\* the promise of response.json() resolves with the decoded body: lines 51-84
JsonResolves(bodies) ==
    \E t \in DOMAIN tasks :
        /\ tasks[t].pc = "awaitJson"
        /\ \E body \in bodies :
              Settle(t, IF BodyMalformed(body) THEN "malformedBody" ELSE "ok", body,
                     getPageViewsBody(body))

\* variant: the rollup is assembled as soon as one branch has settled
MetricsReturnEarly ==
    /\ call.op = "getAnalyticsMetrics"
    /\ call.pc = "pending"
    /\ \E t \in DOMAIN tasks : tasks[t].pc \in {"fulfilled", "rejected"}
    /\ call' = [call EXCEPT !.pc = "returned", !.result = ZeroMetrics]
    /\ UNCHANGED <<tasks, calls, wiring>>

\* variant: the rollup gives up on its branches and returns the zero record
\* while backend calls are still pending
MetricsReturnOnTimeout ==
    /\ call.op = "getAnalyticsMetrics"
    /\ call.pc = "pending"
    /\ call' = [call EXCEPT !.pc = "returned", !.result = ZeroMetrics]
    /\ UNCHANGED <<tasks, calls, wiring>>

\* Promise.all settles, lines 310-338: it rejects as soon as one branch has
\* rejected and is fulfilled once every branch is
MetricsReturn ==
    /\ call.op = "getAnalyticsMetrics"
    /\ call.pc = "pending"
    /\ \/ \E t \in DOMAIN tasks : tasks[t].pc = "rejected"
       \/ \A t \in DOMAIN tasks : tasks[t].pc = "fulfilled"
    /\ call' = IF \E t \in DOMAIN tasks : tasks[t].pc = "rejected"
               THEN LET t == CHOOSE u \in DOMAIN tasks : tasks[u].pc = "rejected"
                    IN  [call EXCEPT !.pc = "returned", !.result = ZeroMetrics,
                                     !.log = <<LogError([error |-> ErrorMessage(tasks[t].result)],
                                                        "Failed to get analytics metrics")>>]
               ELSE [call EXCEPT !.pc = "returned",
                                 !.result = ComposeMetrics([t \in DOMAIN tasks |-> tasks[t].result])]
    /\ UNCHANGED <<tasks, calls, wiring>>

\* a caller applies parseTimeRange to a token, with a logger or without
ParseTimeRange(tokens, loggers) ==
    /\ call.pc = "idle"
    /\ \E timeRange \in tokens, hasLogger \in loggers :
          call' = [op |-> "parseTimeRange", timeRange |-> timeRange, logger |-> hasLogger,
                   pc |-> "returned", result |-> parseTimeRangeValue(timeRange),
                   log |-> parseTimeRangeLog(timeRange, hasLogger)]
    /\ UNCHANGED <<tasks, calls, wiring>>

\* the api entry of a call that has just completed
ApiEntry(op, arg, done, singleton, made) ==
    [op |-> op, arg |-> arg, raised |-> done.raised, value |-> done.value,
     singleton |-> singleton, made |-> made]

\* the number of instances constructed so far
Made == IF api = <<>> THEN 0 ELSE api[Len(api)].made

\* configure(c)
Configure(bundles, maxCalls) ==
    /\ Len(api) < maxCalls
    /\ \E c \in bundles :
          /\ config' = configure(config, c)
          /\ api' = Append(api, ApiEntry("configure", c, Returned(Null),
                                          analyticsDataService, Made))
    /\ UNCHANGED <<call, tasks, calls, analyticsDataService, service>>

\* resetConfig()
ResetConfig(maxCalls) ==
    /\ Len(api) < maxCalls
    /\ config' = resetConfig(config)
    /\ api' = Append(api, ApiEntry("resetConfig", Null, Returned(Null),
                                    analyticsDataService, Made))
    /\ UNCHANGED <<call, tasks, calls, analyticsDataService, service>>

\* getConfig()
GetConfig(maxCalls) ==
    /\ Len(api) < maxCalls
    /\ api' = Append(api, ApiEntry("getConfig", Null, getConfig(config),
                                    analyticsDataService, Made))
    /\ UNCHANGED <<call, tasks, calls, config, analyticsDataService, service>>

\* new AnalyticsDataService(): the caller keeps the instance when there is one
Construct(maxCalls) ==
    /\ Len(api) < maxCalls
    /\ LET made == AnalyticsDataService(config, Made + 1)
       IN  /\ service' = IF made.raised THEN service ELSE made.value
           /\ api' = Append(api, ApiEntry("new AnalyticsDataService", Null, made,
                                           analyticsDataService,
                                           IF made.raised THEN Made ELSE Made + 1))
    /\ UNCHANGED <<call, tasks, calls, config, analyticsDataService>>

\* createAnalyticsDataService(), lines 352-355: the assignment to the
\* singleton happens only once the constructor has returned
CreateAnalyticsDataService(maxCalls) ==
    /\ Len(api) < maxCalls
    /\ LET made == AnalyticsDataService(config, Made + 1)
       IN  /\ analyticsDataService' = IF made.raised THEN analyticsDataService ELSE made.value
           /\ service' = IF made.raised THEN service ELSE made.value
           /\ api' = Append(api, ApiEntry("createAnalyticsDataService", Null, made,
                                           analyticsDataService',
                                           IF made.raised THEN Made ELSE Made + 1))
    /\ UNCHANGED <<call, tasks, calls, config>>

(***************************************************************************)
(* What the backend may do                                                 *)
(***************************************************************************)
FetchErrors == {Error("Connection refused")}

Responses ==
    {[ok |-> TRUE, status |-> 200, statusText |-> "OK"],
     [ok |-> FALSE, status |-> 502, statusText |-> "Bad Gateway"]}

JsonErrors == {Error("Invalid JSON")}

\* all sequences over S of length at most n
SeqsUpTo(S, n) == UNION {[1..k -> S] : k \in 0..n}

(***************************************************************************)
(* Spec: every entry point, every kind of backend failure, and the         *)
(* decoded bodies of MainBodyList.                                         *)
(***************************************************************************)
MainNow == 700000000

NumMainBodies == 2

MainBodyList ==
    <<BodyResult(<<Stream(<<Entry("0", ObjectLine(Undefined, "s1", "ip1", "https://www.google.com/")),
                            Entry("2000000000", ObjectLine("/a", "s1", "ip1", Undefined))>>)>>),
      BodyResult(<<Stream(<<Entry("1000000000", ObjectLine("/a", "s2", Undefined, "")),
                            Entry("1500000000", InvalidLine("not json"))>>)>>),
      BodyNoData,
      BodyNull,
      BodyResult(<<Stream(<<Entry("500000000", ObjectLine("/b", Undefined, "ip2", "soon"))>>),
                   StreamNoValues>>)>>

MainBodies == {MainBodyList[i] : i \in 1..Min(NumMainBodies, Len(MainBodyList))}

MainTimeRanges == {"7d", "soon"}

MainLimits ==
    [op \in {"getPageViews", "getTopPages", "getTrafficSources"} |->
        IF op = "getPageViews" THEN {1000} ELSE {10, 1}]

Next ==
    \/ Invoke(SingleOps, MainTimeRanges, MainLimits, {MainNow})
    \/ InvokeMetrics(MainTimeRanges, {MainNow})
    \/ FetchRejects(FetchErrors)
    \/ FetchResolves(Responses)
    \/ JsonRejects(JsonErrors)
    \/ JsonResolves(MainBodies)
    \/ MetricsReturn

Spec == Init /\ [][Next]_vars

\* the value the parameter `limit` takes when the caller leaves it out
\* (lines 36, 98 and 252)
DefaultLimit(op) == IF op = "getPageViews" THEN 1000 ELSE 10

DefaultLimits ==
    [op \in {"getPageViews", "getTopPages", "getTrafficSources"} |-> {DefaultLimit(op)}]

(***************************************************************************)
(* SpecPageViews: getPageViews alone, over every body of at most MaxValues *)
(* entries spread in arrival order over at most MaxStreams streams (a      *)
(* stream may be empty).  The entries mix instants that arrive out of      *)
(* order, two that fall in the same millisecond, a payload that is not     *)
(* JSON and a timestamp that is not a number.  Two more bodies have no     *)
(* `data` and no `data.result`.                                            *)
(***************************************************************************)
MaxStreams == 2

MaxValues == 3

PageViewEntries ==
    {Entry("0", ObjectLine("/a", "s1", "ip1", Undefined)),
     Entry("1000000000", ObjectLine(Undefined, "s2", Undefined, "")),
     Entry("1000999999", ObjectLine("/c", Undefined, "ip1", Undefined)),
     Entry("2000000000", InvalidLine("not json")),
     Entry("soon", ObjectLine("/d", "s1", "ip1", Undefined))}

\* the places where a list of n entries is cut into streams
Cuts(n) ==
    {cuts \in SeqsUpTo(0..n, MaxStreams - 1) :
        \A i \in 1..(Len(cuts) - 1) : cuts[i] <= cuts[i + 1]}

SplitStreams(values, cuts) ==
    [i \in 1..(Len(cuts) + 1) |->
        Stream(SubSeq(values,
                      (IF i = 1 THEN 0 ELSE cuts[i - 1]) + 1,
                      IF i = Len(cuts) + 1 THEN Len(values) ELSE cuts[i]))]

PageViewBodies ==
    {BodyNoData, BodyNoResult, BodyResult(<<>>)} \cup
    UNION {{BodyResult(SplitStreams(values, cuts)) : cuts \in Cuts(Len(values))} :
              values \in SeqsUpTo(PageViewEntries, MaxValues)}

NextPageViews ==
    \/ Invoke({"getPageViews"}, {"24h"}, DefaultLimits, {MainNow})
    \/ FetchRejects(FetchErrors)
    \/ FetchResolves(Responses)
    \/ JsonRejects(JsonErrors)
    \/ JsonResolves(PageViewBodies)

SpecPageViews == Init /\ [][NextPageViews]_vars

(***************************************************************************)
(* SpecVisitors: getUniqueVisitors over every single-stream body of at     *)
(* most MaxVisitorEntries entries whose sessionId and clientIp are each    *)
(* absent, empty, a name, or the word "unknown".                           *)
(***************************************************************************)
MaxVisitorEntries == 2

VisitorEntries ==
    {Entry("0", ObjectLine("/", session, ip, Undefined)) :
        session \in {Undefined, "", "s1", "s2", "unknown"},
        ip \in {Undefined, "", "ip1", "ip2", "unknown"}}

VisitorBodies ==
    {BodyResult(<<Stream(values)>>) : values \in SeqsUpTo(VisitorEntries, MaxVisitorEntries)}

NextVisitors ==
    \/ Invoke({"getUniqueVisitors"}, {"24h"}, DefaultLimits, {MainNow})
    \/ FetchRejects(FetchErrors)
    \/ FetchResolves(Responses)
    \/ JsonRejects(JsonErrors)
    \/ JsonResolves(VisitorBodies)

SpecVisitors == Init /\ [][NextVisitors]_vars

(***************************************************************************)
(* SpecDuration: getAverageSessionDuration over every single-stream body   *)
(* of at most MaxDurationEntries entries, at instants a half or a whole    *)
(* second apart, of two sessions or of none.                               *)
(***************************************************************************)
MaxDurationEntries == 3

DurationEntries ==
    {Entry(timestamp, ObjectLine("/", session, "ip1", Undefined)) :
        timestamp \in {"0", "500000000", "1500000000"},
        session \in {Undefined, "s1", "s2"}}
      \cup {Entry("1500000000", ObjectLine("/", "", "ip1", Undefined))}

DurationBodies ==
    {BodyResult(<<Stream(values)>>) : values \in SeqsUpTo(DurationEntries, MaxDurationEntries)}

NextDuration ==
    \/ Invoke({"getAverageSessionDuration"}, {"24h"}, DefaultLimits, {MainNow})
    \/ FetchRejects(FetchErrors)
    \/ FetchResolves(Responses)
    \/ JsonRejects(JsonErrors)
    \/ JsonResolves(DurationBodies)

SpecDuration == Init /\ [][NextDuration]_vars

(***************************************************************************)
(* SpecBounce: getBounceRate over the bodies that hold `size` sessions,    *)
(* `bounced` of them with one event and the others with two, for every     *)
(* bounced <= size <= MaxSessions, with or without one event that has no   *)
(* sessionId.                                                              *)
(***************************************************************************)
MaxSessions == 40

SessionName(i) == "s" \o NumberToString(i)

BounceValues(bounced, size, anonymous) ==
    [i \in 1..size |-> Entry("0", ObjectLine("/", SessionName(i), "ip1", Undefined))]
        \o [i \in 1..(size - bounced) |->
                Entry("1000000000", ObjectLine("/next", SessionName(bounced + i), "ip1", Undefined))]
        \o [i \in 1..anonymous |-> Entry("0", ObjectLine("/", Undefined, "ip1", Undefined))]

BounceBodies ==
    {BodyResult(<<Stream(BounceValues(p[1], p[2], p[3]))>>) :
        p \in {q \in (0..MaxSessions) \X (0..MaxSessions) \X (0..1) : q[1] <= q[2]}}

NextBounce ==
    \/ Invoke({"getBounceRate"}, {"24h"}, DefaultLimits, {MainNow})
    \/ FetchRejects(FetchErrors)
    \/ FetchResolves(Responses)
    \/ JsonRejects(JsonErrors)
    \/ JsonResolves(BounceBodies)

SpecBounce == Init /\ [][NextBounce]_vars

(***************************************************************************)
(* SpecReferrers: getTrafficSources over every single-stream body of at    *)
(* most MaxReferrerEntries events of one session, each with one of the     *)
(* referrers of ReferrerTable.  The table lists, beside each referrer,     *)
(* whether it is a well-formed absolute URL and the host it names.         *)
(***************************************************************************)
MaxReferrerEntries == 2

ReferrerTable ==
    <<[referrer |-> Undefined, url |-> FALSE, host |-> ""],
      [referrer |-> "", url |-> FALSE, host |-> ""],
      [referrer |-> "not a url", url |-> FALSE, host |-> ""],
      [referrer |-> "www.google.com", url |-> FALSE, host |-> ""],
      [referrer |-> "https://www.google.com/search?q=x", url |-> TRUE, host |-> "www.google.com"],
      [referrer |-> "https://www.bing.com/", url |-> TRUE, host |-> "www.bing.com"],
      [referrer |-> "https://duckduckgo.com/?q=x", url |-> TRUE, host |-> "duckduckgo.com"],
      [referrer |-> "https://twitter.com/user", url |-> TRUE, host |-> "twitter.com"],
      [referrer |-> "https://t.co/abc", url |-> TRUE, host |-> "t.co"],
      [referrer |-> "https://www.facebook.com/", url |-> TRUE, host |-> "www.facebook.com"],
      [referrer |-> "https://old.reddit.com/r/x", url |-> TRUE, host |-> "old.reddit.com"],
      [referrer |-> "https://github.com/a/b", url |-> TRUE, host |-> "github.com"],
      [referrer |-> "https://example.com/page", url |-> TRUE, host |-> "example.com"],
      [referrer |-> "https://google.github.com/", url |-> TRUE, host |-> "google.github.com"],
      [referrer |-> "https://bing.twitter.com", url |-> TRUE, host |-> "bing.twitter.com"],
      [referrer |-> "https://github.reddit.com/x", url |-> TRUE, host |-> "github.reddit.com"],
      [referrer |-> "https://facebook.duckduckgo.com/", url |-> TRUE, host |-> "facebook.duckduckgo.com"],
      [referrer |-> "https://at.co/", url |-> TRUE, host |-> "at.co"],
      [referrer |-> "http://example.org:8080/?ref=https://google.com", url |-> TRUE, host |-> "example.org"]>>

ReferrerEntries ==
    {Entry("0", ObjectLine("/", "s1", "ip1", ReferrerTable[i].referrer)) :
        i \in 1..Len(ReferrerTable)}

ReferrerBodies ==
    {BodyResult(<<Stream(values)>>) : values \in SeqsUpTo(ReferrerEntries, MaxReferrerEntries)}

NextReferrers ==
    \/ Invoke({"getTrafficSources"}, {"24h"}, DefaultLimits, {MainNow})
    \/ FetchRejects(FetchErrors)
    \/ FetchResolves(Responses)
    \/ JsonRejects(JsonErrors)
    \/ JsonResolves(ReferrerBodies)

SpecReferrers == Init /\ [][NextReferrers]_vars

(***************************************************************************)
(* SpecSources: getTrafficSources, with the default limit and with limits  *)
(* 2, 1 and 0, over every single-stream body of at most MaxSourceEntries   *)
(* events that have no referrer, a google referrer or an example.com       *)
(* referrer and belong to one of two sessions or to none; and over one     *)
(* body with the referrers of NumSites different sites, more than the      *)
(* default limit, the i-th site being visited by i % 3 sessions.           *)
(***************************************************************************)
MaxSourceEntries == 3

NumSites == 12

SiteHost(i) == "site" \o NumberToString(i) \o ".example"

SiteURL(i) == "https://" \o SiteHost(i) \o "/"

SourceReferrers == {Undefined, "https://www.google.com/search?q=x", "https://example.com/page"}

SourceEntries ==
    {Entry("0", ObjectLine("/", session, "ip1", referrer)) :
        session \in {Undefined, "s1", "s2"}, referrer \in SourceReferrers}

RECURSIVE SiteValues(_)
SiteValues(i) ==
    IF i = 0 THEN <<>>
    ELSE SiteValues(i - 1)
            \o [k \in 1..Max(i % 3, 1) |->
                    Entry("0", ObjectLine("/", IF i % 3 = 0 THEN Undefined ELSE SessionName(k),
                                          "ip1", SiteURL(i)))]

SourceBodies ==
    {BodyResult(<<Stream(values)>>) : values \in SeqsUpTo(SourceEntries, MaxSourceEntries)}
        \cup {BodyResult(<<Stream(SiteValues(NumSites))>>)}

SourceLimits ==
    [op \in {"getPageViews", "getTopPages", "getTrafficSources"} |->
        {DefaultLimit(op), 2, 1, 0}]

NextSources ==
    \/ Invoke({"getTrafficSources"}, {"24h"}, SourceLimits, {MainNow})
    \/ FetchRejects(FetchErrors)
    \/ FetchResolves(Responses)
    \/ JsonRejects(JsonErrors)
    \/ JsonResolves(SourceBodies)

SpecSources == Init /\ [][NextSources]_vars

(***************************************************************************)
(* SpecTopPages: getTopPages, with the default limit and with limits 2, 1  *)
(* and 0, over every single-stream body of at most MaxPageEntries events   *)
(* whose path is absent, "/", "/a" or "/b"; and over one body with         *)
(* NumPaths different paths, more than the default limit, the i-th path    *)
(* being viewed (i % 3) + 1 times.                                         *)
(***************************************************************************)
MaxPageEntries == 4

NumPaths == 12

PathName(i) == "/p" \o NumberToString(i)

PageEntries ==
    {Entry("0", ObjectLine(path, "s1", "ip1", Undefined)) : path \in {Undefined, "/", "/a", "/b"}}

RECURSIVE PathValues(_)
PathValues(i) ==
    IF i = 0 THEN <<>>
    ELSE PathValues(i - 1)
            \o [k \in 1..((i % 3) + 1) |->
                    Entry("0", ObjectLine(PathName(i), "s1", "ip1", Undefined))]

PageBodies ==
    {BodyResult(<<Stream(values)>>) : values \in SeqsUpTo(PageEntries, MaxPageEntries)}
        \cup {BodyResult(<<Stream(PathValues(NumPaths))>>)}

PageLimits ==
    [op \in {"getPageViews", "getTopPages", "getTrafficSources"} |->
        {DefaultLimit(op), 2, 1, 0}]

NextTopPages ==
    \/ Invoke({"getTopPages"}, {"24h"}, PageLimits, {MainNow})
    \/ FetchRejects(FetchErrors)
    \/ FetchResolves(Responses)
    \/ JsonRejects(JsonErrors)
    \/ JsonResolves(PageBodies)

SpecTopPages == Init /\ [][NextTopPages]_vars

(***************************************************************************)
(* SpecActive: getActiveUsers over every single-stream body of at most     *)
(* MaxActiveEntries events whose sessionId is absent, empty or one of two  *)
(* names, with or without a clientIp.                                      *)
(***************************************************************************)
MaxActiveEntries == 3

ActiveEntries ==
    {Entry("0", ObjectLine("/", session, ip, Undefined)) :
        session \in {Undefined, "", "s1", "s2"}, ip \in {Undefined, "ip1"}}

ActiveBodies ==
    {BodyResult(<<Stream(values)>>) : values \in SeqsUpTo(ActiveEntries, MaxActiveEntries)}

NextActive ==
    \/ Invoke({"getActiveUsers"}, {"7d"}, DefaultLimits, {MainNow})
    \/ FetchRejects(FetchErrors)
    \/ FetchResolves(Responses)
    \/ JsonRejects(JsonErrors)
    \/ JsonResolves(ActiveBodies)

SpecActive == Init /\ [][NextActive]_vars

(***************************************************************************)
(* SpecTimeRange: parseTimeRange applied, with and without a logger, to    *)
(* the tokens made of one of TokenDigits and a unit, and to the tokens of  *)
(* InvalidTokens.  TokenDigits reaches beyond 2^53.                        *)
(***************************************************************************)
TokenDigits ==
    {"0", "1", "5", "24", "007", "999", "999999", "4294967296",
     "72057594037929", "9007199254740993"}

ValidTokens == {digits \o unit : digits \in TokenDigits, unit \in Units}

InvalidTokens ==
    {"", "h", "24", "24x", "24H", "24w", "-1h", "+1h", "1.5h", "1 h", " 1h", "1h ",
     "1hh", "h1", "abc", "24hours", "1d\n", "0x10s", "1e3s", "soon"}

NextTimeRange == ParseTimeRange(ValidTokens \cup InvalidTokens, BOOLEAN)

SpecTimeRange == Init /\ [][NextTimeRange]_vars

(***************************************************************************)
(* The configuration API on its own: any interleaving of configure,        *)
(* resetConfig, getConfig, the constructor and createAnalyticsDataService, *)
(* starting from a freshly loaded module.                                  *)
(***************************************************************************)
MaxApiCalls == 5

\* two bundles that differ in every field; the second has no logger
ConfigBundles ==
    {MainConfig,
     [lokiUrl |-> "http://loki-b:3100", prometheusUrl |-> "http://prometheus-b:9090",
      fetchLoki |-> "fetchLokiB", logger |-> Undefined]}

NextConfig ==
    \/ Configure(ConfigBundles, MaxApiCalls)
    \/ ResetConfig(MaxApiCalls)
    \/ GetConfig(MaxApiCalls)
    \/ Construct(MaxApiCalls)
    \/ CreateAnalyticsDataService(MaxApiCalls)

SpecConfig == InitUnconfigured /\ [][NextConfig]_vars

(***************************************************************************)
(* Every entry point on a service built from a bundle with a logger and on *)
(* one built from the same bundle without it, under every kind of backend  *)
(* failure, with a range token that makes parseTimeRange warn and a body   *)
(* with an entry that does not decode.                                     *)
(***************************************************************************)
LoggerConfigs == {MainConfig, [MainConfig EXCEPT !.logger = Undefined]}

LoggerTimeRanges == {"soon"}

LoggerBodies == {MainBodyList[2]}

InitLogger == InitConfigured(LoggerConfigs)

NextLogger ==
    \/ Invoke(SingleOps, LoggerTimeRanges, DefaultLimits, {MainNow})
    \/ InvokeMetrics(LoggerTimeRanges, {MainNow})
    \/ FetchRejects(FetchErrors)
    \/ FetchResolves(Responses)
    \/ JsonRejects(JsonErrors)
    \/ JsonResolves(LoggerBodies)
    \/ MetricsReturn

SpecLogger == InitLogger /\ [][NextLogger]_vars

(***************************************************************************)
(* Concurrent invocations on one instance: the five branches of a rollup,  *)
(* and single entry points begun while earlier ones are pending, with two  *)
(* different bodies and every kind of backend failure.                     *)
(***************************************************************************)
MaxConcurrent == 2

ConcurrentOps == {"getPageViews", "getUniqueVisitors", "getBounceRate"}

ConcurrentTimeRanges == {"7d"}

ConcurrentBodies == {MainBodyList[1], MainBodyList[2]}

NextConcurrent ==
    \/ Invoke(ConcurrentOps, ConcurrentTimeRanges, DefaultLimits, {MainNow})
    \/ InvokeAlso(ConcurrentOps, ConcurrentTimeRanges, DefaultLimits, {MainNow}, MaxConcurrent)
    \/ InvokeMetrics(ConcurrentTimeRanges, {MainNow})
    \/ FetchRejects(FetchErrors)
    \/ FetchResolves(Responses)
    \/ JsonRejects(JsonErrors)
    \/ JsonResolves(ConcurrentBodies)
    \/ MetricsReturn

SpecConcurrent == Init /\ [][NextConcurrent]_vars

(***************************************************************************)
(* The two rankings under caller limits from 0 to more than the internal   *)
(* limit, over bodies of up to MaxRankingEvents events spread over three   *)
(* paths and four referring sites.                                         *)
(***************************************************************************)
MaxRankingEvents == 12

RankingValues(n) ==
    [i \in 1..n |->
        Entry("0", ObjectLine(PathName((i % 3) + 1), SessionName(i), "ip1",
                              SiteURL((i % 4) + 1)))]

RankingBodies == {BodyResult(<<Stream(RankingValues(n))>>) : n \in 0..MaxRankingEvents}

RankingLimits ==
    [op \in {"getPageViews", "getTopPages", "getTrafficSources"} |->
        {DefaultLimit(op), 0, 1, 2, 20000}]

NextRanking ==
    \/ Invoke({"getTopPages", "getTrafficSources"}, {"24h"}, RankingLimits, {MainNow})
    \/ FetchRejects(FetchErrors)
    \/ FetchResolves(Responses)
    \/ JsonRejects(JsonErrors)
    \/ JsonResolves(RankingBodies)

SpecRanking == Init /\ [][NextRanking]_vars

(***************************************************************************)
(* getPageViews under every token of SpecTimeRange, matching or not, short *)
(* or beyond 2^53 ms, and several limits.                                  *)
(***************************************************************************)
WindowLimits ==
    [op \in {"getPageViews", "getTopPages", "getTrafficSources"} |->
        {DefaultLimit(op), 1, 50000}]

NextWindow ==
    \/ Invoke({"getPageViews"}, ValidTokens \cup InvalidTokens, WindowLimits, {MainNow})
    \/ FetchRejects(FetchErrors)
    \/ FetchResolves(Responses)
    \/ JsonRejects(JsonErrors)
    \/ JsonResolves({BodyNoData})

SpecWindow == Init /\ [][NextWindow]_vars

(***************************************************************************)
(* getPageViews and its diagnostics: tokens that match and that do not,    *)
(* every kind of backend failure, and bodies that are empty, that carry    *)
(* entries which do not decode, and that make the decoding loop throw      *)
(* after it has already warned.                                            *)
(***************************************************************************)
DiagnosticTimeRanges == {"24h", "5m", "soon", ""}

DiagnosticBodies ==
    {MainBodyList[i] : i \in 1..Len(MainBodyList)}
        \cup {BodyNoResult, BodyResult(<<>>),
              BodyResult(<<Stream(<<Entry("soon", ObjectLine("/d", "s1", "ip1", Undefined)),
                                    Entry("0", ObjectLine("/a", "s1", "ip1", Undefined)),
                                    Entry("2000000000", InvalidLine("not json"))>>),
                           Stream(<<Entry("1000000000", InvalidLine("{"))>>)>>),
              BodyResult(<<Stream(<<Entry("2000000000", InvalidLine("not json"))>>),
                           StreamNoValues>>)}

NextDiagnostics ==
    \/ Invoke({"getPageViews"}, DiagnosticTimeRanges, WindowLimits, {MainNow})
    \/ FetchRejects(FetchErrors)
    \/ FetchResolves(Responses)
    \/ JsonRejects(JsonErrors)
    \/ JsonResolves(DiagnosticBodies)

SpecDiagnostics == Init /\ [][NextDiagnostics]_vars

(***************************************************************************)
(* Progress.  Every entry point against a backend whose calls and body     *)
(* reads all settle in the end: the settling of a pending call or read is  *)
(* weakly fair, and so is the continuation of the rollup, which the event  *)
(* loop runs once Promise.all has settled.                                 *)
(***************************************************************************)
LiveBodies == {MainBodyList[2]}

BackendSettles ==
    \/ FetchRejects(FetchErrors)
    \/ FetchResolves(Responses)
    \/ JsonRejects(JsonErrors)
    \/ JsonResolves(LiveBodies)

NextLive ==
    \/ Invoke(SingleOps, {"24h"}, DefaultLimits, {MainNow})
    \/ InvokeMetrics({"24h"}, {MainNow})
    \/ BackendSettles
    \/ MetricsReturn

\* where the invocation and each of its activations stand
progress == <<Position(call), [t \in DOMAIN tasks |-> Position(tasks[t])]>>

SpecLive ==
    Init /\ [][NextLive]_vars /\ WF_progress(BackendSettles) /\ WF_progress(MetricsReturn)

(***************************************************************************)
(* Reconfiguration around an invocation: bundles are installed and         *)
(* cleared and instances constructed before, while and after an entry      *)
(* point of the instance the caller holds runs.                            *)
(***************************************************************************)
MaxRewires == 4

RewireOps == {"getPageViews", "getUniqueVisitors"}

NextRewire ==
    \/ Configure(ConfigBundles, MaxRewires)
    \/ ResetConfig(MaxRewires)
    \/ Construct(MaxRewires)
    \/ Invoke(RewireOps, {"24h"}, DefaultLimits, {MainNow})
    \/ FetchRejects(FetchErrors)
    \/ FetchResolves(Responses)
    \/ JsonResolves(LiveBodies)

SpecRewire == InitUnconfigured /\ [][NextRewire]_vars

(***************************************************************************)
(* getPageViews against a backend that answers with success and failure    *)
(* statuses, one of them without status text.                              *)
(***************************************************************************)
StatusResponses ==
    Responses \cup {[ok |-> TRUE, status |-> 204, statusText |-> "No Content"],
                    [ok |-> FALSE, status |-> 404, statusText |-> "Not Found"],
                    [ok |-> FALSE, status |-> 500, statusText |-> ""]}

NextStatus ==
    \/ Invoke({"getPageViews"}, {"24h", "7d", "soon"}, WindowLimits, {MainNow})
    \/ FetchRejects(FetchErrors)
    \/ FetchResolves(StatusResponses)
    \/ JsonRejects(JsonErrors)
    \/ JsonResolves(DiagnosticBodies)

SpecStatus == Init /\ [][NextStatus]_vars

(***************************************************************************)
(* The rollup against a backend whose five replies differ in length: one   *)
(* event, four events of four sessions on three paths, or one event and    *)
(* an entry that does not decode.                                          *)
(***************************************************************************)
RollupBodies ==
    {BodyResult(<<Stream(RankingValues(1))>>), BodyResult(<<Stream(RankingValues(4))>>),
     MainBodyList[2]}

NextRollup ==
    \/ InvokeMetrics({"24h"}, {MainNow})
    \/ FetchResolves(Responses)
    \/ JsonResolves(RollupBodies)
    \/ MetricsReturn

SpecRollup == Init /\ [][NextRollup]_vars

(***************************************************************************)
(* Every entry point over a window followed by a second copy of one of     *)
(* its events; the events differ in path, session, instant and referrer,   *)
(* and some have no session.                                               *)
(***************************************************************************)
MaxWindow == 2

DuplicateEntries ==
    {Entry("0", ObjectLine("/a", "s1", "ip1", "https://www.google.com/")),
     Entry("2000000000", ObjectLine("/b", "s1", "ip1", Undefined)),
     Entry("1000000000", ObjectLine("/a", "s2", "ip2", Undefined)),
     Entry("500000000", ObjectLine("/b", Undefined, "ip2", "https://www.google.com/")),
     Entry("1500000000", ObjectLine(Undefined, "", Undefined, "soon"))}

DuplicateBodies ==
    UNION {{BodyResult(<<Stream(Append(values, values[i]))>>) : i \in 1..Len(values)} :
              values \in SeqsUpTo(DuplicateEntries, MaxWindow)}

NextDuplicate ==
    \/ Invoke(SingleOps, {"24h"}, DefaultLimits, {MainNow})
    \/ FetchResolves(Responses)
    \/ JsonResolves(DuplicateBodies)

SpecDuplicate == Init /\ [][NextDuplicate]_vars

(***************************************************************************)
(* Vocabulary of the properties                                            *)
(***************************************************************************)
Metrics == "getAnalyticsMetrics"

Settled(t) == tasks[t].pc \in {"fulfilled", "rejected"}

\* the backend call of activation t failed: it rejected, it came back with
\* a non-success status, reading its body failed, or the body it delivered
\* has no usable top-level structure
FailureKinds == {"fetchRejected", "badStatus", "jsonRejected", "malformedBody"}

Failed(t) == tasks[t].outcome \in FailureKinds

CountLevel(log, level) == Cardinality({i \in 1..Len(log) : log[i].level = level})

\* error-level diagnostics emitted so far during the invocation
ErrorCount ==
    CountLevel(call.log, "error")
        + SumOver([t \in DOMAIN tasks |-> CountLevel(tasks[t].log, "error")], DOMAIN tasks)

FailedTasks == {t \in DOMAIN tasks : Failed(t)}

\* what the single entry point op returns when its one backend call
\* delivers body
StandaloneValue(op, limit, body) == Settlement(op, limit, getPageViewsBody(body)).value

(***************************************************************************)
(* C1.  Whatever way the backend fails (the call rejects, the status is    *)
(* not a success, reading the body fails), no entry point raises, and an   *)
(* invocation all of whose backend calls failed returns its empty value:   *)
(* [] for the list-valued entry points, 0 for the number-valued ones, the  *)
(* all-zero record for getAnalyticsMetrics.                                *)
(***************************************************************************)
C1_FailureYieldsEmptyValue ==
    /\ call.pc # "raised"
    /\ \A t \in DOMAIN tasks : tasks[t].pc # "rejected"
    /\ \A t \in DOMAIN tasks : Failed(t) /\ call.op # Metrics => call.pc = "returned"
    /\ (call.pc = "returned" /\ \A t \in DOMAIN tasks : Failed(t)) =>
          CASE call.op \in {"getPageViews", "getTopPages", "getTrafficSources"} ->
                  call.result = <<>>
            [] call.op \in {"getUniqueVisitors", "getActiveUsers",
                            "getAverageSessionDuration", "getBounceRate"} ->
                  call.result = 0
            [] call.op = Metrics ->
                  call.result = [totalPageViews |-> 0, uniqueVisitors |-> 0,
                                 topPages |-> <<>>, averageSessionDuration |-> 0,
                                 bounceRate |-> 0]

\* the rollup has returned after its five calls failed in all three ways
C1_Witness ==
    /\ call.op = Metrics
    /\ call.pc = "returned"
    /\ {tasks[t].outcome : t \in DOMAIN tasks} = {"fetchRejected", "badStatus", "jsonRejected"}

(***************************************************************************)
(* C2 as stated: an invocation during which the backend failed has emitted *)
(* exactly one error-level diagnostic when it returns.                     *)
(***************************************************************************)
C2_ExactlyOneErrorPerInvocation ==
    (call.pc = "returned" /\ FailedTasks # {}) => ErrorCount = 1

(***************************************************************************)
(* C2 amended: every failed backend call is reported by exactly one        *)
(* error-level diagnostic, emitted by the getPageViews activation that     *)
(* made the call, and nothing else emits one.  A single entry point whose  *)
(* call failed has therefore emitted exactly one; getAnalyticsMetrics has  *)
(* emitted as many as it has failed calls (one to five).                   *)
(***************************************************************************)
C2_OneErrorPerFailedCall ==
    /\ CountLevel(call.log, "error") = 0
    /\ \A t \in DOMAIN tasks :
          CountLevel(tasks[t].log, "error") = IF Failed(t) THEN 1 ELSE 0
    /\ call.pc = "returned" => ErrorCount = Cardinality(FailedTasks)
    /\ (call.pc = "returned" /\ call.op # Metrics /\ FailedTasks # {}) => ErrorCount = 1

\* the rollup has returned with three failed calls and three error diagnostics
C2_Witness ==
    /\ call.op = Metrics
    /\ call.pc = "returned"
    /\ Cardinality(FailedTasks) = 3
    /\ ErrorCount = 3

(***************************************************************************)
(* C3.  When getAnalyticsMetrics returns, each field fed by a failed call  *)
(* holds its default and each field fed by a successful call holds what    *)
(* the corresponding single entry point computes from that call's own      *)
(* body, whichever of the other calls failed.                              *)
(***************************************************************************)
C3_PartialFailureFields ==
    (call.op = Metrics /\ call.pc = "returned") =>
        /\ call.result.totalPageViews =
              IF Failed(1) THEN 0
              ELSE Len(StandaloneValue("getPageViews", 1000, tasks[1].body))
        /\ call.result.topPages =
              IF Failed(2) THEN <<>>
              ELSE StandaloneValue("getTopPages", 10, tasks[2].body)
        /\ call.result.uniqueVisitors =
              IF Failed(3) THEN 0
              ELSE StandaloneValue("getUniqueVisitors", 0, tasks[3].body)
        /\ call.result.averageSessionDuration =
              IF Failed(4) THEN 0
              ELSE StandaloneValue("getAverageSessionDuration", 0, tasks[4].body)
        /\ call.result.bounceRate =
              IF Failed(5) THEN 0
              ELSE StandaloneValue("getBounceRate", 0, tasks[5].body)

\* a rollup returned with the first and fourth call failed and non-zero
\* unique visitors, top pages and bounce rate from the other three
C3_Witness ==
    /\ call.op = Metrics
    /\ call.pc = "returned"
    /\ FailedTasks = {1, 4}
    /\ call.result.uniqueVisitors = 1
    /\ Len(call.result.topPages) = 2
    /\ call.result.bounceRate = 100

(***************************************************************************)
(* C4.  getAnalyticsMetrics has returned only if all five of its branches  *)
(* have settled; it never returns while a branch is still pending,         *)
(* whatever the order of completion and whichever calls failed.            *)
(***************************************************************************)
C4_ReturnsAfterAllBranches ==
    (call.op = Metrics /\ call.pc = "returned") =>
        /\ DOMAIN tasks = 1..5
        /\ \A t \in DOMAIN tasks : Settled(t)

\* a rollup returned after its first call had failed and its last succeeded
C4_Witness ==
    /\ call.op = Metrics
    /\ call.pc = "returned"
    /\ Failed(1)
    /\ tasks[5].outcome = "ok"

(***************************************************************************)
(* C5.  From its start to after its return, and whether the backend        *)
(* succeeds or fails, a single entry point has issued exactly one backend  *)
(* call and getAnalyticsMetrics exactly five, one per branch; each of the  *)
(* five covers the window of the caller's timeRange token and is           *)
(* announced with that token.                                              *)
(***************************************************************************)
C5_BackendCallCount ==
    call.pc # "idle" =>
        /\ Len(calls) = IF call.op = Metrics THEN 5 ELSE 1
        /\ \A t \in DOMAIN tasks : calls[t] = tasks[t].path
        /\ \A t \in DOMAIN tasks : tasks[t].bodyReads <= 1
        /\ call.op = Metrics =>
              \A t \in DOMAIN tasks :
                  /\ calls[t].end.ms - calls[t].start.ms = parseTimeRange(call.timeRange)
                  /\ \E i \in 1..Len(tasks[t].log) :
                        /\ tasks[t].log[i].msg = "Fetching page views from Loki"
                        /\ tasks[t].log[i].data.timeRange = call.timeRange

\* a rollup over seven days returned with five calls issued, one of them failed
C5_Witness ==
    /\ call.op = Metrics
    /\ call.pc = "returned"
    /\ call.timeRange = "7d"
    /\ Len(calls) = 5
    /\ Cardinality(FailedTasks) = 1

(***************************************************************************)
(* Vocabulary of the properties about one fetch: the entries a body        *)
(* delivers and what each stands for, stated on the entries themselves.    *)
(***************************************************************************)
RECURSIVE FlatEntries(_)
FlatEntries(result) ==
    IF result = <<>> THEN <<>> ELSE Head(result).values \o FlatEntries(Tail(result))

\* the entries delivered to the single activation of the invocation
Delivered == FlatEntries(tasks[1].body.result)

ReturnedOk(op) ==
    /\ call.op = op
    /\ call.pc = "returned"
    /\ tasks[1].outcome = "ok"
    /\ tasks[1].body.kind = "result"

\* an entry decodes when its payload is a JSON object and its timestamp a
\* decimal number
EntryDecodable(e) ==
    /\ e.logLine.json = "object"
    /\ Len(e.timestamp) > 0
    /\ \A i \in 1..Len(e.timestamp) : IsDigit(CharAt(e.timestamp, i))

\* the millisecond a decodable entry's nanosecond timestamp falls in
EntryMillis(e) == DigitsValue(e.timestamp) \div 1000000

Present(v) == v # Undefined /\ v # ""

\* the event a decodable entry stands for
ExpectedEvent(e) ==
    [ms        |-> EntryMillis(e),
     path      |-> IF Present(e.logLine.path) THEN e.logLine.path ELSE "/",
     sessionId |-> e.logLine.session_id,
     userId    |-> e.logLine.user_id,
     clientIp  |-> e.logLine.client_ip,
     referrer  |-> e.logLine.referrer,
     userAgent |-> e.logLine.user_agent]

\* a returned page view, with its instant read back from the ISO timestamp
SeenEvent(view) ==
    [ms        |-> getTime(view.timestamp),
     path      |-> view.path,
     sessionId |-> view.sessionId,
     userId    |-> view.userId,
     clientIp  |-> view.clientIp,
     referrer  |-> view.referrer,
     userAgent |-> view.userAgent]

DecodableIndices == {i \in 1..Len(Delivered) : EntryDecodable(Delivered[i])}

IsParseWarning(entry) == entry.level = "warn" /\ entry.msg = "Failed to parse log line"

NotDecodable(e) == ~EntryDecodable(e)

(***************************************************************************)
(* C6.  The list getPageViews returns is sorted non-increasing by          *)
(* timestamp, whatever the order of the entries within a stream and of the *)
(* streams.                                                                *)
(***************************************************************************)
C6_SortedByTimestamp ==
    (call.op = "getPageViews" /\ call.pc = "returned") =>
        \A i \in 1..(Len(call.result) - 1) :
            getTime(call.result[i].timestamp) >= getTime(call.result[i + 1].timestamp)

\* three events of two streams were returned, the oldest of which arrived
\* first and the newest last
C6_Witness ==
    /\ ReturnedOk("getPageViews")
    /\ Len(tasks[1].body.result) = 2
    /\ Len(call.result) = 3
    /\ Delivered[1].timestamp = "0"
    /\ EntryDecodable(Delivered[Len(Delivered)])
    /\ EntryMillis(Delivered[Len(Delivered)]) = 1000
    /\ getTime(call.result[3].timestamp) = 0

(***************************************************************************)
(* C7.  From a successful response whose entries are partly decodable and  *)
(* partly not, getPageViews returns exactly the events of the decodable    *)
(* entries, with their multiplicities, wherever the others sit; it emits   *)
(* one warning per entry that does not decode, carrying that entry's       *)
(* payload, and no error-level diagnostic, and it ends with the finish     *)
(* diagnostic counting the returned events.                                *)
(***************************************************************************)
C7_ValidSubsetAndWarnings ==
    ReturnedOk("getPageViews") =>
        /\ Len(call.result) = Cardinality(DecodableIndices)
        /\ \A i \in DecodableIndices :
              Cardinality({j \in 1..Len(call.result) :
                              SeenEvent(call.result[j]) = ExpectedEvent(Delivered[i])})
                = Cardinality({k \in DecodableIndices :
                                  ExpectedEvent(Delivered[k]) = ExpectedEvent(Delivered[i])})
        /\ [i \in 1..Len(SelectSeq(tasks[1].log, IsParseWarning)) |->
                SelectSeq(tasks[1].log, IsParseWarning)[i].data.logLine]
             = [i \in 1..Len(SelectSeq(Delivered, NotDecodable)) |->
                    SelectSeq(Delivered, NotDecodable)[i].logLine]
        /\ CountLevel(tasks[1].log, "warn") = Len(Delivered) - Cardinality(DecodableIndices)
        /\ CountLevel(tasks[1].log, "error") = 0
        /\ tasks[1].log[Len(tasks[1].log)] =
              LogInfo([count |-> Len(call.result)], "Fetched page views from Loki")

\* two events were returned from three entries, the one between them being
\* a payload that is not JSON
C7_Witness ==
    /\ ReturnedOk("getPageViews")
    /\ Len(Delivered) = 3
    /\ Delivered[2].logLine = InvalidLine("not json")
    /\ DecodableIndices = {1, 3}
    /\ Len(call.result) = 2
    /\ CountLevel(tasks[1].log, "warn") = 1

(***************************************************************************)
(* C8 as stated: getUniqueVisitors returns the number of distinct visitor  *)
(* identities, an event's identity being its sessionId if it has one, else *)
(* its clientIp if it has one; an event with neither is left out.          *)
(***************************************************************************)
HasIdentity(e) == Present(e.logLine.session_id) \/ Present(e.logLine.client_ip)

Identity(e) ==
    IF Present(e.logLine.session_id) THEN e.logLine.session_id ELSE e.logLine.client_ip

C8_DistinctIdentities ==
    ReturnedOk("getUniqueVisitors") =>
        call.result = Cardinality({Identity(Delivered[i]) :
                                      i \in {j \in DecodableIndices : HasIdentity(Delivered[j])}})

(***************************************************************************)
(* C9.  getAverageSessionDuration returns 0 when no event has a non-empty  *)
(* sessionId, and otherwise the mean over the sessions of (latest minus    *)
(* earliest instant of the session's events) in seconds, rounded half-up;  *)
(* the result depends neither on the arrival order of the events nor on    *)
(* the events without sessionId.                                           *)
(***************************************************************************)
SessionIds ==
    {Delivered[i].logLine.session_id :
        i \in {j \in DecodableIndices : Present(Delivered[j].logLine.session_id)}}

SessionMillis(session) ==
    {EntryMillis(Delivered[i]) :
        i \in {j \in DecodableIndices : Delivered[j].logLine.session_id = session}}

Largest(S) == CHOOSE x \in S : \A y \in S : y <= x

Smallest(S) == CHOOSE x \in S : \A y \in S : x <= y

TotalSpan ==
    SumOver([session \in SessionIds |->
                Largest(SessionMillis(session)) - Smallest(SessionMillis(session))],
            SessionIds)

\* numerator / denominator rounded to the nearest integer, halves upwards
RoundHalfUp(numerator, denominator) ==
    (2 * numerator + denominator) \div (2 * denominator)

C9_MeanSessionDuration ==
    ReturnedOk("getAverageSessionDuration") =>
        call.result = IF SessionIds = {} THEN 0
                      ELSE RoundHalfUp(TotalSpan, 1000 * Cardinality(SessionIds))

\* one session whose events arrived earliest first and span half a second,
\* next to an event without sessionId: the mean 0.5 is returned as 1
C9_Witness ==
    /\ ReturnedOk("getAverageSessionDuration")
    /\ Len(Delivered) = 3
    /\ SessionIds = {"s1"}
    /\ Delivered[1].logLine.session_id = "s1"
    /\ EntryMillis(Delivered[1]) = 0
    /\ Delivered[2].logLine.session_id = Undefined
    /\ TotalSpan = 500
    /\ call.result = 1

(***************************************************************************)
(* C10 as stated: getBounceRate returns 0 when no event has a non-empty    *)
(* sessionId, and otherwise bounced / total * 100 rounded half-up, total   *)
(* being the number of distinct sessionIds and bounced the number of       *)
(* sessions with exactly one event; the result is an integer from 0 to     *)
(* 100 and does not depend on the events without sessionId.                *)
(***************************************************************************)
EventsOf(session) ==
    {i \in DecodableIndices : Delivered[i].logLine.session_id = session}

BouncedSessions == {session \in SessionIds : Cardinality(EventsOf(session)) = 1}

C10_BounceRateHalfUp ==
    ReturnedOk("getBounceRate") =>
        /\ call.result \in 0..100
        /\ call.result = IF SessionIds = {} THEN 0
                         ELSE RoundHalfUp(100 * Cardinality(BouncedSessions),
                                          Cardinality(SessionIds))

(***************************************************************************)
(* C11.  getTrafficSources puts every event into exactly one bucket: an    *)
(* absent or empty referrer and a referrer that is not a URL go to the one *)
(* bucket "Direct"; a URL referrer is labelled by the first rule its host  *)
(* matches, in the order google, bing, duckduckgo, (twitter or exactly     *)
(* t.co), facebook, reddit, github, and by the host itself when no rule    *)
(* matches.                                                                *)
(***************************************************************************)
SourceRules ==
    <<[label |-> "Google", contains |-> {"google"}, equals |-> {}],
      [label |-> "Bing", contains |-> {"bing"}, equals |-> {}],
      [label |-> "DuckDuckGo", contains |-> {"duckduckgo"}, equals |-> {}],
      [label |-> "Twitter", contains |-> {"twitter"}, equals |-> {"t.co"}],
      [label |-> "Facebook", contains |-> {"facebook"}, equals |-> {}],
      [label |-> "Reddit", contains |-> {"reddit"}, equals |-> {}],
      [label |-> "GitHub", contains |-> {"github"}, equals |-> {}]>>

RuleMatches(rule, host) ==
    \/ host \in rule.equals
    \/ \E word \in rule.contains :
          \E i \in 1..(Len(host) - Len(word) + 1) : SubSeq(host, i, i + Len(word) - 1) = word

MatchingRules(host) == {r \in 1..Len(SourceRules) : RuleMatches(SourceRules[r], host)}

\* the row that describes a referrer: its row of ReferrerTable, or that of
\* the site it belongs to
ReferrerRows ==
    ReferrerTable \o [i \in 1..NumSites |->
                        [referrer |-> SiteURL(i), url |-> TRUE, host |-> SiteHost(i)]]

ReferrerRow(referrer) ==
    ReferrerRows[CHOOSE i \in 1..Len(ReferrerRows) : ReferrerRows[i].referrer = referrer]

ExpectedLabel(referrer) ==
    LET row == ReferrerRow(referrer)
    IN  IF ~row.url THEN "Direct"
        ELSE IF MatchingRules(row.host) = {} THEN row.host
        ELSE SourceRules[CHOOSE r \in MatchingRules(row.host) :
                            \A q \in MatchingRules(row.host) : r <= q].label

C11_OneBucketPerEvent ==
    ReturnedOk("getTrafficSources") =>
        /\ {call.result[i].source : i \in 1..Len(call.result)}
             = {ExpectedLabel(Delivered[j].logLine.referrer) : j \in DecodableIndices}
        /\ \A i, j \in 1..Len(call.result) :
              call.result[i].source = call.result[j].source => i = j

\* a host that matches two rules got the label of the earlier one, and a
\* referrer that names google without being a URL went to "Direct"
C11_Witness ==
    /\ ReturnedOk("getTrafficSources")
    /\ Len(Delivered) = 2
    /\ Delivered[1].logLine.referrer = "https://github.reddit.com/x"
    /\ Delivered[2].logLine.referrer = "www.google.com"
    /\ call.result = <<[source |-> "Reddit", visits |-> 1], [source |-> "Direct", visits |-> 1]>>

(***************************************************************************)
(* C12.  Each bucket getTrafficSources returns has visits equal to the     *)
(* number of distinct non-empty sessionIds among the events of the bucket, *)
(* not to the number of events; an event without sessionId opens its       *)
(* bucket and adds nothing, so a bucket of such events only is returned    *)
(* with visits = 0.                                                        *)
(***************************************************************************)
ExpectedLabels == {ExpectedLabel(Delivered[j].logLine.referrer) : j \in DecodableIndices}

ExpectedVisits(label) ==
    Cardinality({Delivered[j].logLine.session_id :
                    j \in {k \in DecodableIndices :
                              /\ ExpectedLabel(Delivered[k].logLine.referrer) = label
                              /\ Present(Delivered[k].logLine.session_id)}})

ReturnedLabels == {call.result[i].source : i \in 1..Len(call.result)}

C12_VisitsAreDistinctSessions ==
    ReturnedOk("getTrafficSources") =>
        /\ \A i \in 1..Len(call.result) :
              /\ call.result[i].source \in ExpectedLabels
              /\ call.result[i].visits = ExpectedVisits(call.result[i].source)
        /\ Cardinality(ExpectedLabels) <= call.limit => ReturnedLabels = ExpectedLabels

\* two events of one session share a bucket that counts 1, and a bucket
\* reached by a session-less event only is returned with 0
C12_Witness ==
    /\ ReturnedOk("getTrafficSources")
    /\ Len(Delivered) = 3
    /\ Delivered[1].logLine.session_id = Undefined
    /\ call.result = <<[source |-> "example.com", visits |-> 1], [source |-> "Google", visits |-> 0]>>

(***************************************************************************)
(* C13.  The list getTrafficSources(timeRange, limit) returns is sorted    *)
(* non-increasing by visits and has at most limit entries (10 when the     *)
(* caller gives none); every bucket the truncation leaves out has visits   *)
(* <= the visits of every returned bucket.                                 *)
(***************************************************************************)
C13_SortedAndTruncated ==
    ReturnedOk("getTrafficSources") =>
        /\ Len(call.result) <= call.limit
        /\ \A i \in 1..(Len(call.result) - 1) :
              call.result[i].visits >= call.result[i + 1].visits
        /\ \A label \in ExpectedLabels \ ReturnedLabels :
              \A i \in 1..Len(call.result) : ExpectedVisits(label) <= call.result[i].visits

\* twelve sites were visited and the caller gave no limit: ten buckets came
\* back, the two left out having no visits, and the first bucket returned
\* was not the first to arrive
C13_Witness ==
    /\ ReturnedOk("getTrafficSources")
    /\ call.limit = DefaultLimit("getTrafficSources")
    /\ Cardinality(ExpectedLabels) = NumSites
    /\ Len(call.result) = 10
    /\ call.result[1] = [source |-> SiteHost(2), visits |-> 2]
    /\ call.result[10].visits = 0

(***************************************************************************)
(* C14.  getTopPages(timeRange, limit) returns one entry per distinct path *)
(* with views equal to the number of fetched events that have the path,    *)
(* sorted non-increasing by views and cut to at most limit entries (10     *)
(* when the caller gives none); every path left out has a count <= the     *)
(* count of every returned path, and when nothing is cut the views add up  *)
(* to the number of fetched events.                                        *)
(***************************************************************************)
ExpectedPath(e) == IF Present(e.logLine.path) THEN e.logLine.path ELSE "/"

ExpectedPaths == {ExpectedPath(Delivered[j]) : j \in DecodableIndices}

ExpectedViews(path) ==
    Cardinality({j \in DecodableIndices : ExpectedPath(Delivered[j]) = path})

ReturnedPaths == {call.result[i].path : i \in 1..Len(call.result)}

C14_TopPages ==
    ReturnedOk("getTopPages") =>
        /\ \A i \in 1..Len(call.result) :
              /\ call.result[i].path \in ExpectedPaths
              /\ call.result[i].views = ExpectedViews(call.result[i].path)
        /\ \A i, j \in 1..Len(call.result) :
              call.result[i].path = call.result[j].path => i = j
        /\ \A i \in 1..(Len(call.result) - 1) :
              call.result[i].views >= call.result[i + 1].views
        /\ Len(call.result) <= call.limit
        /\ \A path \in ExpectedPaths \ ReturnedPaths :
              \A i \in 1..Len(call.result) : ExpectedViews(path) <= call.result[i].views
        /\ Cardinality(ExpectedPaths) <= call.limit =>
              /\ ReturnedPaths = ExpectedPaths
              /\ SumOver([i \in 1..Len(call.result) |-> call.result[i].views],
                         1..Len(call.result)) = Cardinality(DecodableIndices)

\* twelve paths were viewed and the caller gave no limit: ten entries came
\* back, led by a path that was not the first to arrive, and the two left
\* out have one view each
C14_Witness ==
    /\ ReturnedOk("getTopPages")
    /\ call.limit = DefaultLimit("getTopPages")
    /\ Cardinality(ExpectedPaths) = NumPaths
    /\ Len(call.result) = 10
    /\ call.result[1] = [path |-> PathName(2), views |-> 3]
    /\ \A path \in ExpectedPaths \ ReturnedPaths : ExpectedViews(path) = 1

(***************************************************************************)
(* C15.  getActiveUsers always asks the backend for the five minutes that  *)
(* end now, with a limit of 1000, whatever range a caller may have in      *)
(* mind, and returns the number of distinct non-empty sessionIds among the *)
(* fetched events; an event without sessionId is ignored even when it has  *)
(* a clientIp.                                                             *)
(***************************************************************************)
C15_ActiveUsers ==
    call.op = "getActiveUsers" =>
        /\ Len(calls) = 1
        /\ calls[1].limit = 1000
        /\ calls[1].end.ms = MainNow
        /\ calls[1].end.ms - calls[1].start.ms = 5 * 60 * 1000
        /\ calls[1].start.suffix = "000000" /\ calls[1].end.suffix = "000000"
        /\ ReturnedOk("getActiveUsers") =>
              call.result = Cardinality({Delivered[j].logLine.session_id :
                                            j \in {k \in DecodableIndices :
                                                      Present(Delivered[k].logLine.session_id)}})

\* one session was counted although two more events carried a clientIp, one
\* without sessionId and one with an empty one
C15_Witness ==
    /\ ReturnedOk("getActiveUsers")
    /\ Len(Delivered) = 3
    /\ Delivered[1].logLine = ObjectLine("/", Undefined, "ip1", Undefined)
    /\ Delivered[2].logLine = ObjectLine("/", "s1", "ip1", Undefined)
    /\ Delivered[3].logLine = ObjectLine("/", "", "ip1", Undefined)
    /\ call.result = 1

(***************************************************************************)
(* C16 as stated: for every token matching ^(\d+)([smhd])$ parseTimeRange  *)
(* returns exactly value * multiplier (s = 1000, m = 60000, h = 3600000,   *)
(* d = 86400000) and emits no warning; for every other string it returns   *)
(* 86400000, does not raise, and emits exactly one warning carrying the    *)
(* token when a sink is given and none when no sink is given.              *)
(***************************************************************************)
TokenMatches(token) ==
    \E digits \in {SubSeq(token, 1, Len(token) - 1)} :
        /\ Len(digits) >= 1
        /\ \A i \in 1..Len(digits) : SubSeq(digits, i, i) \in {"0", "1", "2", "3", "4", "5", "6", "7", "8", "9"}
        /\ SubSeq(token, Len(token), Len(token)) \in {"s", "m", "h", "d"}

UnitMillis(unit) ==
    CASE unit = "s" -> 1000
      [] unit = "m" -> 60000
      [] unit = "h" -> 3600000
      [] unit = "d" -> 86400000

\* value * multiplier of a matching token, as an exact integer
ExactMillis(token) ==
    BigMul(BigFromDigits(SubSeq(token, 1, Len(token) - 1)),
           UnitMillis(SubSeq(token, Len(token), Len(token))))

DefaultsWithWarning ==
    /\ F64ToBig(call.result) = BigFromInt(86400000)
    /\ call.log = IF call.logger
                  THEN <<LogWarn([timeRange |-> call.timeRange],
                                 "Invalid time range format, defaulting to 24h")>>
                  ELSE <<>>

C16_ExactProduct ==
    call.op = "parseTimeRange" =>
        /\ call.pc = "returned"
        /\ IF Len(call.timeRange) >= 1 /\ TokenMatches(call.timeRange)
           THEN F64ToBig(call.result) = ExactMillis(call.timeRange) /\ call.log = <<>>
           ELSE DefaultsWithWarning

(***************************************************************************)
(* C16, amended: the product is exact for every matching token whose       *)
(* value * multiplier is below 2^53; the rest of the statement stands.     *)
(***************************************************************************)
C16_ExactProductBelow2To53 ==
    call.op = "parseTimeRange" =>
        /\ call.pc = "returned"
        /\ IF Len(call.timeRange) >= 1 /\ TokenMatches(call.timeRange)
           THEN /\ call.log = <<>>
                /\ BigBitLen(ExactMillis(call.timeRange)) <= 53 =>
                      F64ToBig(call.result) = ExactMillis(call.timeRange)
           ELSE DefaultsWithWarning

\* 999999 days came back as 86399913600000000 ms, a value beyond 32 bits,
\* without a warning although a sink was given
C16_Witness ==
    /\ call.op = "parseTimeRange"
    /\ call.timeRange = "999999d"
    /\ call.logger
    /\ call.log = <<>>
    /\ F64ToBig(call.result) = BigMulSmall(BigMulSmall(BigFromInt(999999), 86400), 1000)

(***************************************************************************)
(* Vocabulary of the properties about configuration, read off the record   *)
(* of the calls made.                                                      *)
(***************************************************************************)
UsageError == [isError |-> TRUE, message |-> "tinyland-analytics-data: call configure() before use"]

\* the positions before i at which a bundle was installed or cleared
InstallsBefore(i) ==
    {j \in 1..(i - 1) : api[j].op \in {"configure", "resetConfig"}}

\* the bundle installed when call i is made, Null when there is none
InstalledBefore(i) ==
    IF InstallsBefore(i) = {} THEN Null
    ELSE LET j == CHOOSE k \in InstallsBefore(i) : \A l \in InstallsBefore(i) : l <= k
         IN  IF api[j].op = "configure" THEN api[j].arg ELSE Null

Constructions == {"new AnalyticsDataService", "createAnalyticsDataService"}

(***************************************************************************)
(* C17.  After any sequence of configure(c) and resetConfig() calls,       *)
(* getConfig() returns the bundle passed to the most recent configure when *)
(* no resetConfig came after it, and raises the usage error otherwise      *)
(* (initially and after every resetConfig); the installed configuration is *)
(* decided by the configure and resetConfig calls alone, so getConfig      *)
(* never changes it.                                                       *)
(***************************************************************************)
C17_GetConfigReturnsLatest ==
    /\ \A i \in 1..Len(api) :
          api[i].op = "getConfig" =>
             IF InstalledBefore(i) = Null
             THEN api[i].raised /\ api[i].value = UsageError
             ELSE ~api[i].raised /\ api[i].value = InstalledBefore(i)
    /\ config = InstalledBefore(Len(api) + 1)

\* two different bundles installed in turn, read back, cleared, read again,
\* and read once more
C17_Witness ==
    /\ Len(api) = 5
    /\ api[1].op = "configure" /\ api[2].op = "configure" /\ api[1].arg # api[2].arg
    /\ api[3].op = "getConfig" /\ ~api[3].raised /\ api[3].value = api[2].arg
    /\ api[4].op = "resetConfig"
    /\ api[5].op = "getConfig" /\ api[5].raised
    /\ config = Null

(***************************************************************************)
(* C18.  Constructing AnalyticsDataService, or calling                     *)
(* createAnalyticsDataService, while no configuration is installed raises  *)
(* the usage error to the caller and creates no service: no instance is    *)
(* made, and the exported singleton keeps the value it had before the      *)
(* failed call.                                                            *)
(***************************************************************************)
C18_NoServiceWithoutConfig ==
    /\ \A i \in 1..Len(api) :
          (api[i].op \in Constructions /\ InstalledBefore(i) = Null) =>
             /\ api[i].raised
             /\ api[i].value = UsageError
             /\ api[i].singleton = IF i = 1 THEN NoService ELSE api[i - 1].singleton
             /\ api[i].made = IF i = 1 THEN 0 ELSE api[i - 1].made
    /\ analyticsDataService = IF api = <<>> THEN NoService ELSE api[Len(api)].singleton
    /\ service # NoService => service.id <= Made

\* a singleton was created, the configuration cleared, and both ways of
\* constructing then failed, leaving the first instance as the singleton
C18_Witness ==
    /\ Len(api) = 5
    /\ api[1].op = "configure"
    /\ api[2].op = "createAnalyticsDataService" /\ ~api[2].raised
    /\ api[3].op = "resetConfig"
    /\ api[4].op = "createAnalyticsDataService" /\ api[4].raised
    /\ api[5].op = "new AnalyticsDataService" /\ api[5].raised
    /\ analyticsDataService = api[2].value
    /\ analyticsDataService.id = 1
    /\ Made = 1

(***************************************************************************)
(* Vocabulary of the properties about the logger: what an invocation       *)
(* requests and returns, stated on the entry point, its arguments and the  *)
(* backend's replies alone.                                                *)
(***************************************************************************)
\* the request activation t makes
ReferencePath(t) ==
    LET args == PageViewsArgs(tasks[t].op, call.timeRange, tasks[t].limit)
    IN  QueryPath(args.timeRange, args.limit, MainNow)

\* the value of the single entry point or rollup branch run by activation t
ReferenceValue(t) ==
    IF Failed(t) THEN CatchValue(tasks[t].op)
    ELSE StandaloneValue(tasks[t].op, tasks[t].limit, tasks[t].body)

ReferenceMetrics ==
    [totalPageViews |-> IF Failed(1) THEN 0 ELSE Len(ReferenceValue(1)),
     uniqueVisitors |-> ReferenceValue(3),
     topPages |-> ReferenceValue(2),
     averageSessionDuration |-> ReferenceValue(4),
     bounceRate |-> ReferenceValue(5)]

(***************************************************************************)
(* C19.  A service configured without a logger behaves as one configured   *)
(* with a logger: for every entry point and every backend behaviour it     *)
(* issues the requests and returns the value that the entry point, its     *)
(* arguments and the backend's replies determine, it emits the same        *)
(* diagnostics, to the console fallback instead of the configured logger,  *)
(* and no entry point raises.                                              *)
(***************************************************************************)
C19_LoggerIsOptional ==
    /\ service.logger = IF config.logger = Undefined THEN "console" ELSE config.logger
    /\ call.pc # "raised"
    /\ \A t \in DOMAIN tasks : tasks[t].pc # "rejected"
    /\ call.pc # "idle" =>
          /\ Len(calls) = IF call.op = Metrics THEN 5 ELSE 1
          /\ DOMAIN tasks = DOMAIN calls
          /\ \A t \in DOMAIN tasks :
                /\ calls[t] = ReferencePath(t)
                /\ (tasks[t].op # "getActiveUsers") <=>
                      (tasks[t].log[1] =
                          LogWarn([timeRange |-> call.timeRange],
                                  "Invalid time range format, defaulting to 24h"))
                /\ CountLevel(tasks[t].log, "error") = IF Failed(t) THEN 1 ELSE 0
    /\ call.pc = "returned" =>
          call.result = IF call.op = Metrics THEN ReferenceMetrics ELSE ReferenceValue(1)

\* a service built without a logger runs on the console fallback: its
\* rollup returned one page view and one visitor, with the second call
\* failed and the range warning and the decode warning both emitted
C19_Witness ==
    /\ config.logger = Undefined
    /\ service.logger = "console"
    /\ call.op = Metrics
    /\ call.pc = "returned"
    /\ FailedTasks = {2}
    /\ call.result.totalPageViews = 1
    /\ call.result.uniqueVisitors = 1
    /\ call.result.topPages = <<>>
    /\ CountLevel(tasks[1].log, "warn") = 2

(***************************************************************************)
(* C20.  When the backend call succeeds and the decoded body has no data   *)
(* field, no data.result field, or an empty result list, getPageViews      *)
(* returns an empty list and emits neither a warning nor an error: it is a *)
(* successful fetch of no events, finish diagnostic with count 0 included. *)
(***************************************************************************)
C20_EmptyBodyIsNoError ==
    (/\ call.op = "getPageViews"
     /\ tasks[1].bodyReads = 1
     /\ tasks[1].body \in {[kind |-> "noData"], [kind |-> "noResult"],
                           [kind |-> "result", result |-> <<>>]}) =>
        /\ call.pc = "returned"
        /\ call.result = <<>>
        /\ CountLevel(tasks[1].log, "warn") = 0
        /\ CountLevel(tasks[1].log, "error") = 0
        /\ Len(tasks[1].log) = 2
        /\ tasks[1].log[2] = LogInfo([count |-> 0], "Fetched page views from Loki")

\* a body without `data` was read and the fetch ended with its finish
\* diagnostic
C20_Witness ==
    /\ call.op = "getPageViews"
    /\ call.pc = "returned"
    /\ tasks[1].body = [kind |-> "noData"]
    /\ tasks[1].log[Len(tasks[1].log)].msg = "Fetched page views from Loki"

(***************************************************************************)
(* C21.  For any interleaving of concurrent invocations on one service     *)
(* instance, the five branches of a rollup included, each invocation's     *)
(* result depends only on the replies to its own backend call: it is what  *)
(* the same entry point computes alone from those replies.  No invocation  *)
(* writes to the instance, whose fields stay those the constructor set.    *)
(***************************************************************************)
C21_InvocationsAreIndependent ==
    /\ service = [id |-> 1, lokiUrl |-> config.lokiUrl,
                  prometheusUrl |-> config.prometheusUrl,
                  fetchLoki |-> config.fetchLoki, logger |-> config.logger]
    /\ \A t \in DOMAIN tasks :
          Settled(t) =>
             /\ tasks[t].pc = "fulfilled"
             /\ tasks[t].result = ReferenceValue(t)
             /\ tasks[t].pageViews =
                   IF Failed(t) THEN <<>>
                   ELSE StandaloneValue("getPageViews", 0, tasks[t].body)
    /\ call.pc = "returned" =>
          call.result = IF call.op = Metrics THEN ReferenceMetrics ELSE ReferenceValue(1)

\* a second invocation was begun, read a body of its own and returned its
\* own count while the first was still waiting for its body
C21_Witness ==
    /\ Len(tasks) = 2
    /\ tasks[1].op = "getPageViews"
    /\ tasks[1].pc = "awaitJson"
    /\ tasks[2].op = "getUniqueVisitors"
    /\ tasks[2].pc = "fulfilled"
    /\ tasks[2].outcome = "ok"
    /\ tasks[2].result = 1

(***************************************************************************)
(* C22.  Whatever limit the caller gives, the one backend query of         *)
(* getTopPages, and likewise of getTrafficSources, carries limit=10000.    *)
(* The caller's limit bounds only the length of the returned ranking:      *)
(* every item returned counts all the delivered events of its path (all    *)
(* the sessions of its source), and the ranking has as many items as there *)
(* are paths (sources), up to the limit.                                   *)
(***************************************************************************)
C22_InternalLimit ==
    /\ (call.op \in {"getTopPages", "getTrafficSources"} /\ call.pc # "idle") =>
          /\ Len(calls) = 1
          /\ calls[1].limit = 10000
    /\ ReturnedOk("getTopPages") =>
          /\ Len(call.result) = Min(call.limit, Cardinality(ExpectedPaths))
          /\ \A i \in 1..Len(call.result) :
                call.result[i].views = ExpectedViews(call.result[i].path)
    /\ ReturnedOk("getTrafficSources") =>
          /\ Len(call.result) = Min(call.limit, Cardinality(ExpectedLabels))
          /\ \A i \in 1..Len(call.result) :
                call.result[i].visits = ExpectedVisits(call.result[i].source)

\* a caller asked for the single top page of twelve events on three paths:
\* the query asked for 10000 events and the one item counts four views
C22_Witness ==
    /\ ReturnedOk("getTopPages")
    /\ call.limit = 1
    /\ calls[1].limit = 10000
    /\ Len(Delivered) = 12
    /\ Len(call.result) = 1
    /\ call.result[1].views = 4

(***************************************************************************)
(* Vocabulary of the properties about the query window, read off the path  *)
(* handed to the backend.                                                  *)
(***************************************************************************)
\* the start instant of the first query, as sign and magnitude
PathStart ==
    LET st == calls[1].start
    IN  IF "ms" \in DOMAIN st
        THEN [neg |-> st.ms < 0, abs |-> BigFromInt(IF st.ms < 0 THEN 0 - st.ms ELSE st.ms)]
        ELSE [neg |-> st.neg, abs |-> st.abs]

\* the first query's start is written in plain decimal digits
PathStartPlain == "ms" \in DOMAIN calls[1].start \/ ~calls[1].start.exponent

\* end - start of the first query is exactly millis
PathSpanIs(millis) ==
    IF PathStart.neg
    THEN BigAdd(BigFromInt(calls[1].end.ms), PathStart.abs) = millis
    ELSE BigAdd(PathStart.abs, millis) = BigFromInt(calls[1].end.ms)

\* what parseTimeRange returns for the token
RangeMillis(token) == F64ToBig(parseTimeRangeValue(token))

PathEndAndLimit ==
    /\ Len(calls) = 1
    /\ calls[1].limit = call.limit
    /\ calls[1].end = [ms |-> MainNow, suffix |-> "000000"]
    /\ calls[1].start.suffix = "000000"
    /\ PathStart.neg \/ ~BigLess(BigFromInt(calls[1].end.ms), PathStart.abs)
    /\ ~(Len(call.timeRange) >= 1 /\ TokenMatches(call.timeRange)) =>
          PathSpanIs(BigFromInt(86400000))

(***************************************************************************)
(* C23 as stated: for every token and limit the path of getPageViews       *)
(* carries the limit it was called with, and start and end, each a         *)
(* millisecond instant followed by six zeros, with end - start equal to    *)
(* parseTimeRange(timeRange): 24 hours for a non-matching token; start is  *)
(* never after end.                                                        *)
(***************************************************************************)
C23_WindowOfEveryToken ==
    (call.op = "getPageViews" /\ call.pc # "idle") =>
        /\ PathEndAndLimit
        /\ PathStartPlain
        /\ PathSpanIs(RangeMillis(call.timeRange))

(***************************************************************************)
(* C23, amended: end - start equals parseTimeRange(timeRange), and start   *)
(* is written as a millisecond instant in plain digits, for every token    *)
(* whose range is below 2^53 ms; for every token and limit the path        *)
(* carries the caller's limit, end is the current instant followed by six  *)
(* zeros, a non-matching token gives a window of 24 hours, and start is    *)
(* never after end.                                                        *)
(***************************************************************************)
C23_WindowBelow2To53 ==
    (call.op = "getPageViews" /\ call.pc # "idle") =>
        /\ PathEndAndLimit
        /\ BigBitLen(RangeMillis(call.timeRange)) <= 53 =>
              /\ PathStartPlain
              /\ PathSpanIs(RangeMillis(call.timeRange))

\* 999999 days before an instant of the year 1970: the query starts at a
\* negative instant beyond 32 bits, exactly that long before its end, and
\* carries the caller's limit of 50000
C23_Witness ==
    /\ call.op = "getPageViews"
    /\ call.pc = "pending"
    /\ call.timeRange = "999999d"
    /\ call.limit = 50000
    /\ calls[1].limit = 50000
    /\ PathStart.neg
    /\ BigAdd(PathStart.abs, BigFromInt(MainNow))
          = BigMulSmall(BigMulSmall(BigFromInt(999999), 86400), 1000)

(***************************************************************************)
(* Vocabulary of the properties about the informational diagnostics of the *)
(* single activation.                                                      *)
(***************************************************************************)
IsInfo(entry) == entry.level = "info"

Infos == SelectSeq(tasks[1].log, IsInfo)

StartInfo ==
    [level |-> "info", msg |-> "Fetching page views from Loki",
     data |-> [timeRange |-> call.timeRange, limit |-> call.limit,
               query |-> "{job=\"stonewall-observability\"} | json | component=\"analytics\" | event_type=\"page_view\""]]

FinishInfo(count) ==
    [level |-> "info", msg |-> "Fetched page views from Loki", data |-> [count |-> count]]

(***************************************************************************)
(* C24.  Within one getPageViews invocation the start diagnostic, carrying *)
(* timeRange and limit, has been emitted when the backend call is issued.  *)
(* On success exactly one finish diagnostic follows every per-entry        *)
(* warning and carries the number of returned events, so that exactly two  *)
(* informational diagnostics are emitted; on any failure the finish        *)
(* diagnostic is not emitted.                                              *)
(***************************************************************************)
C24_StartAndFinishDiagnostics ==
    (call.op = "getPageViews" /\ call.pc # "idle") =>
        /\ Len(calls) = 1
        /\ Infos # <<>> /\ Infos[1] = StartInfo
        /\ tasks[1].logged >= 1 /\ tasks[1].log[tasks[1].logged] = StartInfo
        /\ call.pc = "pending" => Infos = <<StartInfo>>
        /\ (call.pc = "returned" /\ ~Failed(1)) =>
              /\ Infos = <<StartInfo, FinishInfo(Len(call.result))>>
              /\ tasks[1].log[Len(tasks[1].log)] = FinishInfo(Len(call.result))
        /\ (call.pc = "returned" /\ Failed(1)) =>
              /\ Infos = <<StartInfo>>
              /\ tasks[1].log[Len(tasks[1].log)].level = "error"

\* an invalid token and a body with three entries that do not decode: the
\* range warning, the start diagnostic, three warnings, and the finish
\* diagnostic counting the one event returned
C24_Witness ==
    /\ call.op = "getPageViews"
    /\ call.pc = "returned"
    /\ call.timeRange = "soon"
    /\ ~Failed(1)
    /\ Len(tasks[1].log) = 6
    /\ tasks[1].logged = 2
    /\ CountLevel(tasks[1].log, "warn") = 4
    /\ tasks[1].log[6] = FinishInfo(1)
    /\ Len(call.result) = 1

(***************************************************************************)
(* C25.  If every backend call and every body read of an invocation        *)
(* settles in the end, the invocation, single entry point or rollup,       *)
(* returns a value in the end.  The service has no timeout of its own: an  *)
(* invocation has returned only if each of its backend calls has settled,  *)
(* so a call that never settles keeps its invocation, and the rollup it    *)
(* belongs to, pending.                                                    *)
(***************************************************************************)
C25_ReturnsOnceBackendSettles ==
    /\ [](call.pc # "raised")
    /\ [](call.pc = "returned" => \A t \in DOMAIN tasks : Settled(t))
    /\ []((call.pc = "pending" /\ call.op # Metrics) =>
            (DOMAIN tasks = {1} /\ tasks[1].pc \in {"awaitFetch", "awaitJson"}))
    /\ (call.pc = "pending") ~> (call.pc = "returned")

\* a rollup has returned after its five calls settled, one of them through
\* a body read
C25_Witness ==
    /\ call.op = Metrics
    /\ call.pc = "returned"
    /\ \A t \in DOMAIN tasks : Settled(t)
    /\ tasks[3].bodyReads = 1
    /\ tasks[3].outcome = "ok"
    /\ Failed(5)

\* the successful construction that made instance id
ConstructionOf(id) ==
    CHOOSE i \in 1..Len(api) : api[i].op \in Constructions /\ ~api[i].raised /\ api[i].made = id

\* the collaborators the bundle installed at that construction provides
InstalledCollaborators(id) ==
    LET bundle == InstalledBefore(ConstructionOf(id))
    IN  [instance  |-> id,
         fetchLoki |-> bundle.fetchLoki,
         logger    |-> IF bundle.logger = Undefined THEN defaultLogger ELSE bundle.logger]

(***************************************************************************)
(* C26.  A service instance keeps the backend-fetch function and logger    *)
(* installed when it was constructed: whatever configure() and             *)
(* resetConfig() calls follow, the instance the caller holds has the       *)
(* collaborators of the bundle installed at its construction, every        *)
(* activation runs with those of its instance, and no entry point raises:  *)
(* a settled invocation has returned the value its entry point computes    *)
(* from the backend's reply.                                               *)
(***************************************************************************)
C26_CollaboratorsFixedAtConstruction ==
    /\ call.pc # "raised"
    /\ service # NoService =>
          /\ service.fetchLoki = InstalledCollaborators(service.id).fetchLoki
          /\ service.logger = InstalledCollaborators(service.id).logger
    /\ \A t \in DOMAIN tasks :
          /\ tasks[t].uses = InstalledCollaborators(tasks[t].uses.instance)
          /\ Settled(t) => (call.pc = "returned" /\ call.result = ReferenceValue(t))

\* an instance built on the first bundle ran an entry point to a successful
\* end after the other bundle had been installed and the configuration cleared
C26_Witness ==
    /\ Len(api) = 4
    /\ api[1].op = "configure" /\ api[1].arg = MainConfig
    /\ api[2].op = "new AnalyticsDataService"
    /\ api[3].op = "configure" /\ api[3].arg # MainConfig
    /\ api[4].op = "resetConfig"
    /\ config = Null
    /\ call.pc = "returned"
    /\ DOMAIN tasks = {1}
    /\ tasks[1].after = 4
    /\ tasks[1].outcome = "ok"
    /\ tasks[1].uses.fetchLoki = MainConfig.fetchLoki

IsErrorEntry(entry) == entry.level = "error"

\* the error diagnostics of activation t
ErrorEntries(t) == SelectSeq(tasks[t].log, IsErrorEntry)

\* the diagnostics a non-success status of the backend set can produce
StatusDiagnostics ==
    {[level |-> "error", msg |-> "Failed to fetch page views from Loki",
      data |-> [error |-> text]] :
        text \in {"Loki query failed: 502 Bad Gateway", "Loki query failed: 404 Not Found",
                  "Loki query failed: 500 "}}

(***************************************************************************)
(* C27.  In getPageViews the body of the response is read at most once and *)
(* only after the backend call has resolved with a success status.  When   *)
(* the status is not a success the body is never read, the invocation is   *)
(* over in that same step with the empty list, and its one error           *)
(* diagnostic, the last thing logged, carries the status code and the      *)
(* status text.                                                            *)
(***************************************************************************)
C27_BodyReadOnlyOnSuccess ==
    \A t \in DOMAIN tasks :
        /\ tasks[t].bodyReads \in {0, 1}
        /\ tasks[t].bodyReads = 1 <=>
               (tasks[t].pc = "awaitJson"
                   \/ tasks[t].outcome \in {"ok", "malformedBody", "jsonRejected"})
        /\ tasks[t].pc = "awaitFetch" => tasks[t].bodyReads = 0
        /\ tasks[t].outcome = "badStatus" =>
              /\ tasks[t].bodyReads = 0
              /\ tasks[t].body = NoBody
              /\ Settled(t)
              /\ call.pc = "returned" /\ call.result = <<>>
              /\ Len(ErrorEntries(t)) = 1
              /\ ErrorEntries(t)[1] = tasks[t].log[Len(tasks[t].log)]
              /\ ErrorEntries(t)[1] \in StatusDiagnostics

\* the backend answered 404 Not Found: no body read, the empty list, and
\* the error diagnostic naming the status after the start diagnostic
C27_Witness ==
    /\ call.op = "getPageViews" /\ call.timeRange = "24h"
    /\ call.pc = "returned" /\ call.result = <<>>
    /\ tasks[1].outcome = "badStatus"
    /\ tasks[1].bodyReads = 0
    /\ Len(tasks[1].log) = 2
    /\ tasks[1].log[2].data.error = "Loki query failed: 404 Not Found"

\* the entries the backend delivered to activation t that are JSON objects
ObjectEntries(t) ==
    LET IsObject(entry) == entry.logLine.json = "object"
    IN  SelectSeq(FlatEntries(tasks[t].body.result), IsObject)

\* the backend returned no more entries to activation t than its limit
HonoursLimit(t) == Len(FlatEntries(tasks[t].body.result)) <= calls[t].limit

(***************************************************************************)
(* C28.  Of the five backend calls of one getAnalyticsMetrics invocation   *)
(* exactly one, the first, whose reply is counted as totalPageViews,       *)
(* carries limit 1000, and the other four carry limit 10000.  In the       *)
(* result of a rollup whose calls all succeeded totalPageViews is the      *)
(* number of events decoded from the first reply, hence at most 1000 when  *)
(* the backend honours the limit, whereas uniqueVisitors counts the        *)
(* sessions of the third reply and the topPages views add up to the events *)
(* of the second, each with limit 10000.                                   *)
(***************************************************************************)
C28_RollupLimits ==
    (call.op = Metrics /\ call.pc # "idle") =>
        /\ Len(calls) = 5
        /\ {t \in 1..5 : calls[t].limit = 1000} = {1}
        /\ {t \in 1..5 : calls[t].limit = 10000} = 2..5
        /\ (call.pc = "returned" /\ FailedTasks = {}) =>
              /\ call.result.totalPageViews = Len(ObjectEntries(1))
              /\ HonoursLimit(1) => call.result.totalPageViews <= 1000
              /\ call.result.uniqueVisitors =
                    Cardinality({ObjectEntries(3)[i].logLine.session_id :
                                    i \in 1..Len(ObjectEntries(3))})
              /\ SumOver([i \in DOMAIN call.result.topPages |-> call.result.topPages[i].views],
                         DOMAIN call.result.topPages) = Len(ObjectEntries(2))

\* the first reply held one event, the second and third four events of four
\* sessions: one page view in total, four visitors, a page with two views
C28_Witness ==
    /\ call.op = Metrics /\ call.pc = "returned" /\ FailedTasks = {}
    /\ \A t \in 1..5 : HonoursLimit(t)
    /\ call.result.totalPageViews = 1
    /\ call.result.uniqueVisitors = 4
    /\ call.result.topPages[1].views = 2

\* the event has the reserved word where its identity is looked for, or has
\* neither field
NotCounted(e) ==
    \/ e.logLine.session_id = "unknown"
    \/ /\ ~Present(e.logLine.session_id)
       /\ (e.logLine.client_ip = "unknown" \/ ~Present(e.logLine.client_ip))

(***************************************************************************)
(* C29.  In getUniqueVisitors the string "unknown" is a reserved word: an  *)
(* event whose sessionId is "unknown", whatever its clientIp, or which has *)
(* no sessionId and whose clientIp is "unknown", is left out like an event *)
(* with neither field; the result is the number of distinct identities     *)
(* (sessionId, else clientIp) of the remaining events.                     *)
(***************************************************************************)
C29_UnknownIsReserved ==
    ReturnedOk("getUniqueVisitors") =>
        call.result = Cardinality({Identity(Delivered[i]) :
                                      i \in {j \in DecodableIndices : ~NotCounted(Delivered[j])}})

\* an event of session "unknown" with an address of its own and an event
\* without session whose address is "unknown": no visitor is counted
C29_Witness ==
    /\ ReturnedOk("getUniqueVisitors")
    /\ Len(Delivered) = 2
    /\ Delivered[1].logLine.session_id = "unknown" /\ Delivered[1].logLine.client_ip = "ip1"
    /\ Delivered[2].logLine.session_id = Undefined /\ Delivered[2].logLine.client_ip = "unknown"
    /\ call.result = 0

\* the delivered entries are a window followed by a copy of one of its events
Window == SubSeq(Delivered, 1, Len(Delivered) - 1)

Duplicate == Delivered[Len(Delivered)]

\* what the invoked entry point returns for the window alone
WithoutDuplicate == StandaloneValue(call.op, call.limit, BodyResult(<<Stream(Window)>>))

\* what it returns for the window and one more view, elsewhere and later,
\* in the session of the copied event
WithOneMoreView ==
    StandaloneValue(call.op, call.limit,
                    BodyResult(<<Stream(Append(Window,
                        Entry("2100000000",
                              ObjectLine("/elsewhere", Duplicate.logLine.session_id,
                                         Undefined, Undefined))))>>))

\* the views a getTopPages result gives to a path
ViewsOf(items, path) ==
    SumOver([i \in DOMAIN items |-> IF items[i].path = path THEN items[i].views ELSE 0],
            DOMAIN items)

(***************************************************************************)
(* C30.  Adding to a fetched window a second copy of one of its events     *)
(* leaves the results of getUniqueVisitors, getActiveUsers,                *)
(* getAverageSessionDuration and getTrafficSources as they are for the     *)
(* window alone; getPageViews returns one event more, getTopPages gives    *)
(* the path of the copied event one view more and every other path the     *)
(* same views, and getBounceRate returns what it returns when the session  *)
(* of the copied event has one more view.                                  *)
(***************************************************************************)
C30_DuplicateEvent ==
    (call.pc = "returned" /\ tasks[1].outcome = "ok") =>
        /\ \E i \in 1..Len(Window) : Window[i] = Duplicate
        /\ call.op \in {"getUniqueVisitors", "getActiveUsers", "getAverageSessionDuration",
                        "getTrafficSources"} => call.result = WithoutDuplicate
        /\ call.op = "getPageViews" => Len(call.result) = Len(WithoutDuplicate) + 1
        /\ call.op = "getTopPages" =>
              \A path \in {"/", "/a", "/b"} :
                  ViewsOf(call.result, path) =
                      ViewsOf(WithoutDuplicate, path)
                          + (IF path = ExpectedEvent(Duplicate).path THEN 1 ELSE 0)
        /\ call.op = "getBounceRate" => call.result = WithOneMoreView

\* the one event of a session arrived twice: the session is no bounce any
\* more, while it is one for the window alone
C30_Witness ==
    /\ ReturnedOk("getBounceRate")
    /\ Len(Delivered) = 2
    /\ Delivered[1] = Delivered[2]
    /\ Delivered[1].logLine.session_id = "s1"
    /\ call.result = 0
    /\ WithoutDuplicate = 100

====
